---------------------------- MODULE Spec2Model ----------------------------
(***************************************************************************)
(* A model of the MiniPL interpreter (paavohuhtala/MiniPL-RS): character   *)
(* stream, lexer, one-token buffer, recursive-descent / shunting-yard      *)
(* parser, scope tree, type checker and tree-walking interpreter, together *)
(* with the properties checked against them.                               *)
(*                                                                         *)
(* Source text is a sequence of one-character strings.  String values and  *)
(* identifier names are sequences of characters as well, so that lexing,   *)
(* escaping and display conversions are computed rather than assumed.      *)
(***************************************************************************)
EXTENDS Integers, Sequences, FiniteSets

VARIABLES
  build,       \* the build that is running: "debug" (overflow checks) or "release"
  source,      \* the source text handed to the lexer (sequence of characters)
  phase,       \* position of the driver: "parse", "typecheck", "execute", "done"
  parsed,      \* result of parse_expression / parse_program
  program,     \* the AST handed to the type checker and the interpreter
  tree,        \* ScopeTree: scopes, scope_symbols_cache, next_scope_id
  tstack,      \* type checker: the statement lists being walked (recursion of type_check_statement)
  tresult,     \* type checker result: [state |-> "none" / "ok" / "err", err, type]
  variables,   \* Interpreter.variables: name -> Variable
  xstack,      \* interpreter: the statement lists / loops being executed
  io,          \* the Io capability: [input |-> lines still to be read, output |-> lines written]
  input,       \* the case the source text or program was built from
  lexer,       \* a BufferedLexer driven directly through the TokenStream trait
  returned,    \* what the calls on that lexer returned, in call order
  decoded,     \* what FileContextSource::decode_offset returned
  outcome      \* what the run returned: [state |-> "none" / "ok" / "err" / "panic", errors, value]

vars == <<build, source, phase, parsed, program, tree, tstack, tresult,
          variables, xstack, io, input, lexer, returned, decoded, outcome>>

-----------------------------------------------------------------------------
(* Bounds of the model *)

\* the integer operands of the generated expressions are 1 .. MaxOperand
MaxOperand == 3
\* the loop bounds of the generated loops are 0 .. MaxBound (and i32::MAX)
MaxBound == 2
\* statements in a generated program
MaxStatements == 3
\* longest generated run of characters in a lexer source
MaxChars == 3
\* longest generated expression, in tokens
MaxTokens == 4
\* longest source of the buffered-lexer runs, in lexemes
MaxLexemes == 2
\* most calls made on one buffered lexer
MaxCalls == 5
\* most scopes of a scope tree driven directly
MaxScopes == 3

-----------------------------------------------------------------------------
(* Characters *)

Printable ==
  <<" ", "!", "\"", "#", "$", "%", "&", "'", "(", ")", "*", "+", ",", "-", ".", "/",
    "0", "1", "2", "3", "4", "5", "6", "7", "8", "9", ":", ";", "<", "=", ">", "?",
    "@", "A", "B", "C", "D", "E", "F", "G", "H", "I", "J", "K", "L", "M", "N", "O",
    "P", "Q", "R", "S", "T", "U", "V", "W", "X", "Y", "Z", "[", "\\", "]", "^", "_",
    "bq", "a", "b", "c", "d", "e", "f", "g", "h", "i", "j", "k", "l", "m", "n", "o",
    "p", "q", "r", "s", "t", "u", "v", "w", "x", "y", "z", "{", "|", "}", "~">>

\* the code point of a character (Rust compares chars by code point); "bq"
\* stands for the grave accent (code point 96), which a string cannot hold
CharCode(c) ==
  IF c = "\t" THEN 9
  ELSE IF c = "\n" THEN 10
  ELSE IF c = "\r" THEN 13
  ELSE 31 + (CHOOSE i \in 1..Len(Printable) : Printable[i] = c)

is_whitespace(ch) == ch \in {" ", "\r", "\n", "\t"}

is_number(ch) == CharCode(ch) >= CharCode("0") /\ CharCode(ch) <= CharCode("9")

\* 'A'...'z' is a range of code points, 65 to 122: it also holds the six
\* characters between "Z" and "a"
is_letter(ch) == CharCode(ch) >= CharCode("A") /\ CharCode(ch) <= CharCode("z")

is_valid_in_identifier(c) == is_letter(c) \/ is_number(c) \/ c = "_"

is_valid_identifier(s) ==
  /\ Len(s) > 0
  /\ is_letter(s[1])
  /\ \A i \in 1..Len(s) : is_valid_in_identifier(s[i])

MaxI32 == 2147483647
MinI32 == -2147483647 - 1

-----------------------------------------------------------------------------
(* CharStream: a cursor over chars; offsets are 0-based, chars[offset+1] is *)
(* the character under the cursor.                                          *)

cs_reached_end(chars, offset) == offset >= Len(chars)

\* advance(): offset = min(len, offset + 1)
cs_advance(chars, offset) == IF offset + 1 < Len(chars) THEN offset + 1 ELSE Len(chars)

\* The predicates the lexer passes to advance_until / take_until, by name.
StopAt(pred, ch) ==
  CASE pred = "not_whitespace" -> ~is_whitespace(ch)
    [] pred = "newline" -> ch = "\n"
    [] pred = "not_number" -> ~is_number(ch)
    [] pred = "not_valid_in_identifier" -> ~is_valid_in_identifier(ch)

\* advance_until(pred): the cursor moves to the first character at or after
\* offset for which pred holds, or to the end of input
RECURSIVE cs_advance_until(_, _, _)
cs_advance_until(chars, offset, pred) ==
  IF cs_reached_end(chars, offset) THEN offset
  ELSE IF StopAt(pred, chars[offset + 1]) THEN offset
  ELSE cs_advance_until(chars, cs_advance(chars, offset), pred)

\* slice_at(offs, offset - offs): the characters take_until consumed
cs_slice(chars, from, to) == SubSeq(chars, from + 1, to)

-----------------------------------------------------------------------------
(* Tokens (parsing/token.rs) and the lexer (parsing/lexer.rs) *)

\* A token is [kind, val]; val is the payload of Identifier (the name),
\* Literal (a LiteralValue), Type (a TypeName) and Operator, and <<>> otherwise.
Tok(kind) == [kind |-> kind, val |-> <<>>]
TokVal(kind, val) == [kind |-> kind, val |-> val]

IntLiteral(i) == [type |-> "IntLiteral", v |-> i]
StringLiteral(s) == [type |-> "StringLiteral", v |-> s]

BinaryOperator(op) == [arity |-> "Binary", op |-> op]
UnaryOperator(op) == [arity |-> "Unary", op |-> op]

\* what next_token / peek return: Ok(TokenWithCtx) or Err(LexerError); pos is
\* where the character stream stands afterwards
LexOk(token, offset, pos) ==
  [ok |-> TRUE, token |-> token, offset |-> offset, err |-> "", pos |-> pos]
LexErr(err, pos) ==
  [ok |-> FALSE, token |-> Tok("None"), offset |-> pos, err |-> err, pos |-> pos]

\* str::parse::<i32> on a run of digits: the value, or -1 when it does not fit
RECURSIVE parse_i32(_, _, _)
parse_i32(digits, i, acc) ==
  IF i > Len(digits) THEN acc
  ELSE LET d == CharCode(digits[i]) - CharCode("0") IN
       IF acc > (MaxI32 - d) \div 10 THEN -1
       ELSE parse_i32(digits, i + 1, acc * 10 + d)

read_number_literal(chars, offset) ==
  LET pos == cs_advance_until(chars, offset, "not_number")
      i == parse_i32(cs_slice(chars, offset, pos), 1, 0)
  IN IF i >= 0 THEN LexOk(TokVal("Literal", IntLiteral(i)), offset, pos)
     ELSE LexErr("InvalidNumberLiteral", pos)

\* the loop of read_string_literal, entered after the opening quote
RECURSIVE string_literal_loop(_, _, _, _)
string_literal_loop(chars, start, offset, acc) ==
  IF cs_reached_end(chars, offset) THEN LexErr("UnterminatedStringLiteral", offset)
  ELSE LET c == chars[offset + 1]
           after == offset + 1
       IN IF c = "\\" THEN
            \* input.next()? on the escape character
            IF cs_reached_end(chars, after) THEN LexErr("CharStreamError", after)
            ELSE LET e == chars[after + 1] IN
                 IF e \in {"\\", "\"", "r", "n", "t"} THEN
                   string_literal_loop(chars, start, after + 1,
                     Append(acc, CASE e = "\\" -> "\\"
                                   [] e = "\"" -> "\""
                                   [] e = "r" -> "\r"
                                   [] e = "n" -> "\n"
                                   [] e = "t" -> "\t"))
                 ELSE LexErr("UnknownEscapeCode", after + 1)
          ELSE IF c = "\"" THEN LexOk(TokVal("Literal", StringLiteral(acc)), start, after)
          ELSE string_literal_loop(chars, start, after, Append(acc, c))

read_string_literal(chars, offset) ==
  string_literal_loop(chars, offset, cs_advance(chars, offset), <<>>)

Keyword(word) ==
  CASE word = <<"p", "r", "i", "n", "t">> -> Tok("Print")
    [] word = <<"r", "e", "a", "d">> -> Tok("Read")
    [] word = <<"i", "n", "t">> -> TokVal("Type", "IntType")
    [] word = <<"b", "o", "o", "l">> -> TokVal("Type", "BoolType")
    [] word = <<"s", "t", "r", "i", "n", "g">> -> TokVal("Type", "StringType")
    [] word = <<"v", "a", "r">> -> Tok("Var")
    [] word = <<"a", "s", "s", "e", "r", "t">> -> Tok("Assert")
    [] word = <<"f", "o", "r">> -> Tok("For")
    [] word = <<"i", "n">> -> Tok("In")
    [] word = <<"d", "o">> -> Tok("Do")
    [] word = <<"e", "n", "d">> -> Tok("End")
    [] OTHER -> Tok("None")

read_keyword_or_identifier(chars, offset) ==
  LET pos == cs_advance_until(chars, offset, "not_valid_in_identifier")
      word == cs_slice(chars, offset, pos)
  IN IF Keyword(word).kind # "None" THEN LexOk(Keyword(word), offset, pos)
     ELSE IF ~is_valid_identifier(word) THEN LexErr("UnknownToken", pos)
     ELSE LexOk(TokVal("Identifier", word), offset, pos)

parse_single_char_token(ch) ==
  CASE ch = ";" -> Tok("Semicolon")
    [] ch = "(" -> Tok("LParen")
    [] ch = ")" -> Tok("RParen")
    [] ch = "+" -> TokVal("Operator", BinaryOperator("Add"))
    [] ch = "-" -> TokVal("Operator", BinaryOperator("Sub"))
    [] ch = "*" -> TokVal("Operator", BinaryOperator("Mul"))
    [] ch = "/" -> TokVal("Operator", BinaryOperator("Div"))
    [] ch = "<" -> TokVal("Operator", BinaryOperator("LessThan"))
    [] ch = "=" -> TokVal("Operator", BinaryOperator("Equal"))
    [] ch = "&" -> TokVal("Operator", BinaryOperator("And"))
    [] ch = "!" -> TokVal("Operator", UnaryOperator("Not"))

\* the loop that looks for the end of a block comment; prev is the character
\* read before the cursor.  Returns the offset after the closing "*/", or -1
\* when the input ends first.
RECURSIVE block_comment_loop(_, _, _)
block_comment_loop(chars, offset, prev) ==
  IF cs_reached_end(chars, offset) THEN -1
  ELSE LET next == chars[offset + 1]
           after == cs_advance(chars, offset)
       IN IF prev = "*" /\ next = "/" THEN after
          ELSE block_comment_loop(chars, after, next)

\* next_token once the whitespace has been skipped: the token at offset
RECURSIVE next_token(_, _)
RECURSIVE token_at(_, _)
token_at(chars, offset) ==
  IF cs_reached_end(chars, offset) THEN LexOk(Tok("EndOfFile"), offset, offset)
  ELSE
    LET first == chars[offset + 1]
        after == cs_advance(chars, offset)
    IN
    IF first \in {";", "(", ")", "+", "-", "*", "<", "=", "&", "!"} THEN
      LexOk(parse_single_char_token(first), offset, after)
    ELSE IF first = ":" THEN
      IF cs_reached_end(chars, after) THEN LexErr("CharStreamError", after)
      ELSE IF chars[after + 1] = "=" THEN LexOk(Tok("Assign"), offset, cs_advance(chars, after))
      ELSE LexOk(Tok("Colon"), offset, after)
    ELSE IF first = "." THEN
      IF cs_reached_end(chars, after) THEN LexErr("CharStreamError", after)
      ELSE IF chars[after + 1] = "." THEN LexOk(Tok("Range"), offset, cs_advance(chars, after))
      ELSE LexErr("UnknownToken", after)
    ELSE IF is_number(first) THEN read_number_literal(chars, offset)
    ELSE IF first = "\"" THEN read_string_literal(chars, offset)
    ELSE IF first = "/" THEN
      IF cs_reached_end(chars, after) THEN LexErr("CharStreamError", after)
      ELSE IF chars[after + 1] = "/" THEN
        \* a line comment: skip to the next newline, then lex on
        next_token(chars, cs_advance_until(chars, cs_advance(chars, after), "newline"))
      ELSE IF chars[after + 1] = "*" THEN
        LET inside == cs_advance(chars, after)
            after_comment(done) ==
              IF done < 0 THEN LexErr("UnterminatedComment", Len(chars))
              ELSE next_token(chars, done)
        IN
        \* let mut prev = input.peek()?
        IF cs_reached_end(chars, inside) THEN LexErr("CharStreamError", inside)
        ELSE after_comment(block_comment_loop(chars, cs_advance(chars, inside),
                                              chars[inside + 1]))
      ELSE LexOk(TokVal("Operator", BinaryOperator("Div")), offset, after)
    ELSE read_keyword_or_identifier(chars, offset)

next_token(chars, from) == token_at(chars, cs_advance_until(chars, from, "not_whitespace"))

-----------------------------------------------------------------------------
(* BufferedLexer: the lexer behind a one-token buffer.  A lexer state is   *)
(* [chars, offset, token, tokens]; token is the buffered TokenWithCtx or   *)
(* NoToken, tokens[o] is what next_token yields with the stream at o.      *)

NoToken == [some |-> FALSE, token |-> Tok("None"), offset |-> 0]
SomeToken(token, offset) == [some |-> TRUE, token |-> token, offset |-> offset]

\* what Lexer::next_token returns for each position of the character stream
TokenStream(chars) == [from \in 0..Len(chars) |-> next_token(chars, from)]

BufferedLexer_new(chars) ==
  [chars |-> chars, offset |-> 0, token |-> NoToken, tokens |-> TokenStream(chars)]

\* advance(): drop the buffered token if there is one, else move the stream
lexer_advance(lx) ==
  IF ~lx.token.some THEN [lx EXCEPT !.offset = cs_advance(lx.chars, lx.offset)]
  ELSE [lx EXCEPT !.token = NoToken]

lexer_reached_end(lx) == ~lx.token.some /\ cs_reached_end(lx.chars, lx.offset)

\* the offset of the character stream, whatever is buffered
lexer_offset_stream(lx) == lx.offset

lexer_offset(lx) == IF lx.token.some THEN lx.token.offset ELSE lx.offset

\* peek(): [ok, token, offset, err, lx]; a token read from the stream is
\* buffered, an error leaves the buffer empty and the stream where lexing failed
lexer_peek(lx) ==
  LET buffered(next) ==
        IF next.ok THEN
          [ok |-> TRUE, token |-> next.token, offset |-> next.offset, err |-> "",
           lx |-> [lx EXCEPT !.offset = next.pos, !.token = SomeToken(next.token, next.offset)]]
        ELSE
          [ok |-> FALSE, token |-> Tok("None"), offset |-> next.pos, err |-> next.err,
           lx |-> [lx EXCEPT !.offset = next.pos]]
  IN IF lx.token.some THEN
       [ok |-> TRUE, token |-> lx.token.token, offset |-> lx.token.offset, err |-> "", lx |-> lx]
     ELSE buffered(lx.tokens[lx.offset])

\* next(): peek()? then advance()
lexer_next(lx) ==
  LET advanced(p) == IF p.ok THEN [p EXCEPT !.lx = lexer_advance(p.lx)] ELSE p
  IN advanced(lexer_peek(lx))

-----------------------------------------------------------------------------
(* AST (parsing/ast.rs) and parser errors (common/errors.rs) *)

Literal(value) == [kind |-> "Literal", value |-> value]
Variable(name) == [kind |-> "Variable", name |-> name]
BinaryOp(op, left, right) == [kind |-> "BinaryOp", op |-> op, left |-> left, right |-> right]
UnaryOp(op, inner) == [kind |-> "UnaryOp", op |-> op, inner |-> inner]

\* Option<Expression>::None
NoExpression == [kind |-> "None"]

DeclareStmt(name, type_of, initial) ==
  [kind |-> "Declare", name |-> name, type_of |-> type_of, initial |-> initial]
AssignStmt(name, value) == [kind |-> "Assign", name |-> name, value |-> value]
ForStmt(variable, from, to, run) ==
  [kind |-> "For", variable |-> variable, from |-> from, to |-> to, run |-> run]
PrintStmt(expr) == [kind |-> "Print", expr |-> expr]
ReadStmt(name) == [kind |-> "Read", name |-> name]
AssertStmt(expr) == [kind |-> "Assert", expr |-> expr]

StatementWithCtx(start, end, statement) ==
  [source_position |-> <<start, end>>, statement |-> statement]

\* ErrWithCtx<ParserError>: the error and the offset it is anchored to.  The
\* offset of a wrapped lexer error is where the character stream stood.
ParserError(kind, offset) ==
  [kind |-> kind, expected |-> "", was |-> "", lexer |-> "", offset |-> offset]
UnexpectedToken(expected, was, offset) ==
  [kind |-> "UnexpectedToken", expected |-> expected, was |-> was, lexer |-> "", offset |-> offset]
UnknownStatement(first, offset) ==
  [kind |-> "UnknownStatement", expected |-> "", was |-> first, lexer |-> "", offset |-> offset]
LexerError(err, offset) ==
  [kind |-> "LexerError", expected |-> "", was |-> "", lexer |-> err, offset |-> offset]

\* Result<T, ParserErrorWithCtx> / Result<T, ParserErrors> together with the
\* lexer state the call leaves behind
POk(val, lx) == [ok |-> TRUE, val |-> val, errs |-> <<>>, lx |-> lx]
PErr(err, lx) == [ok |-> FALSE, val |-> <<>>, errs |-> <<err>>, lx |-> lx]
PErrs(errs, lx) == [ok |-> FALSE, val |-> <<>>, errs |-> errs, lx |-> lx]

-----------------------------------------------------------------------------
(* Parser (parsing/parser.rs) *)

get_precedence(operator) ==
  IF operator.arity = "Unary" THEN 3
  ELSE CASE operator.op \in {"Mul", "Div"} -> 2
         [] operator.op \in {"Add", "Sub", "And"} -> 1
         [] operator.op \in {"LessThan", "Equal"} -> 0

\* Parser::advance: lexer.next() with the token dropped
parser_advance(lx) == lexer_next(lx).lx

\* the `?` on a peeked token: the lexer error as a parser error
PeekErr(next) == PErr(LexerError(next.err, next.offset), next.lx)

expect_eq(lx, kind) ==
  LET expect(next) ==
        IF ~next.ok THEN PeekErr(next)
        ELSE IF next.token.kind = kind THEN POk(<<>>, lexer_advance(next.lx))
        ELSE PErr(UnexpectedToken(kind, next.token.kind, next.offset), next.lx)
  IN expect(lexer_peek(lx))

expect_identifier(lx) ==
  LET expect(next) ==
        IF ~next.ok THEN PeekErr(next)
        ELSE IF next.token.kind = "Identifier" THEN POk(next.token.val, parser_advance(next.lx))
        ELSE PErr(UnexpectedToken("Identifier", next.token.kind, next.offset), next.lx)
  IN expect(lexer_peek(lx))

expect_type_name(lx) ==
  LET expect(next) ==
        IF ~next.ok THEN PeekErr(next)
        ELSE IF next.token.kind = "Type" THEN POk(next.token.val, parser_advance(next.lx))
        ELSE PErr(UnexpectedToken("Type", next.token.kind, next.offset), next.lx)
  IN expect(lexer_peek(lx))

\* the operator stack of parse_expression holds operators and left parentheses
OpItem(operator) == [item |-> "Operator", operator |-> operator]
LParenItem == [item |-> "LParen", operator |-> <<>>]

\* create_node: fold the operator with the operands on top of the output stack
create_node(operator, output) ==
  IF operator.arity = "Binary" THEN
    IF Len(output) < 2 THEN [ok |-> FALSE, output |-> output]
    ELSE [ok |-> TRUE,
          output |-> Append(SubSeq(output, 1, Len(output) - 2),
                            BinaryOp(operator.op, output[Len(output) - 1], output[Len(output)]))]
  ELSE
    IF Len(output) < 1 THEN [ok |-> FALSE, output |-> output]
    ELSE [ok |-> TRUE,
          output |-> Append(SubSeq(output, 1, Len(output) - 1),
                            UnaryOp(operator.op, output[Len(output)]))]

\* the operator on the stack is popped whatever its precedence
pops_before_always(stack_op, operator) == TRUE

\* whether the operator on top of the stack is popped before `operator` is pushed
pops_before(stack_op, operator) == ~(get_precedence(stack_op) <= get_precedence(operator))

\* operators.pop_while(...) of the Token::Operator branch: pop and fold the
\* operators on top of the stack that bind tighter than `operator`
RECURSIVE pop_while_operator(_, _, _)
pop_while_operator(operators, output, operator) ==
  IF operators = <<>> THEN [ok |-> TRUE, operators |-> operators, output |-> output]
  ELSE LET top == operators[Len(operators)] IN
       IF top.item = "LParen" THEN [ok |-> TRUE, operators |-> operators, output |-> output]
       ELSE IF ~pops_before(top.operator, operator)
         THEN [ok |-> TRUE, operators |-> operators, output |-> output]
       ELSE LET node == create_node(top.operator, output) IN
            IF node.ok
              THEN pop_while_operator(SubSeq(operators, 1, Len(operators) - 1), node.output, operator)
            ELSE [ok |-> FALSE, operators |-> operators, output |-> node.output]

\* operators.pop_while(...) of the Token::RParen branch: pop and fold down to
\* the nearest left parenthesis (or to the bottom of the stack)
RECURSIVE pop_while_rparen(_, _)
pop_while_rparen(operators, output) ==
  IF operators = <<>> THEN [ok |-> TRUE, operators |-> operators, output |-> output]
  ELSE LET top == operators[Len(operators)] IN
       IF top.item = "LParen" THEN [ok |-> TRUE, operators |-> operators, output |-> output]
       ELSE LET node == create_node(top.operator, output) IN
            IF node.ok
              THEN pop_while_rparen(SubSeq(operators, 1, Len(operators) - 1), node.output)
            ELSE [ok |-> FALSE, operators |-> operators, output |-> node.output]

\* Vec::pop: the vector without its last element (unchanged when empty)
vec_pop(v) == IF v = <<>> THEN v ELSE SubSeq(v, 1, Len(v) - 1)

\* the final `for op_or_lparen in operators.iter().rev()` of parse_expression:
\* [res, output] with res "ok", "MissingRParen" or "IncompleteExpression"
RECURSIVE drain_operators(_, _)
drain_operators(operators, output) ==
  IF operators = <<>> THEN [res |-> "ok", output |-> output]
  ELSE LET top == operators[Len(operators)] IN
       IF top.item = "LParen" THEN [res |-> "MissingRParen", output |-> output]
       ELSE LET node == create_node(top.operator, output) IN
            IF node.ok THEN drain_operators(vec_pop(operators), node.output)
            ELSE [res |-> "IncompleteExpression", output |-> node.output]

\* the `loop` of parse_expression and what follows it; `advanced` is the
\* lexer after self.advance() on the peeked token
RECURSIVE expression_loop(_, _, _, _)
expression_loop(lx, output, operators, start) ==
  LET folded(next, advanced, popped, pushed) ==
        IF ~popped.ok THEN PErr(ParserError("IncompleteExpression", start), advanced)
        ELSE expression_loop(advanced, popped.output, pushed, start)
      drained(next, rest) ==
        IF rest.res # "ok" THEN PErr(ParserError(rest.res, start), next.lx)
        ELSE IF Len(rest.output) # 1
          THEN PErr(ParserError("InvalidBinaryExpression", start), next.lx)
        ELSE POk(rest.output[1], next.lx)
      rparen(next, advanced, popped) ==
        folded(next, advanced, popped, vec_pop(popped.operators))
      operator(next, advanced, popped) ==
        folded(next, advanced, popped, Append(popped.operators, OpItem(next.token.val)))
      token(next, advanced) ==
        IF next.token.kind = "Literal" THEN
          expression_loop(advanced, Append(output, Literal(next.token.val)), operators, start)
        ELSE IF next.token.kind = "Identifier" THEN
          expression_loop(advanced, Append(output, Variable(next.token.val)), operators, start)
        ELSE IF next.token.kind = "LParen" THEN
          expression_loop(advanced, output, Append(operators, LParenItem), start)
        ELSE IF next.token.kind = "RParen" THEN
          rparen(next, advanced, pop_while_rparen(operators, output))
        ELSE IF next.token.kind = "Operator" THEN
          operator(next, advanced, pop_while_operator(operators, output, next.token.val))
        ELSE drained(next, drain_operators(operators, output))
      peeked(next) ==
        IF ~next.ok THEN PeekErr(next) ELSE token(next, parser_advance(next.lx))
  IN peeked(lexer_peek(lx))

parse_expression(lx) ==
  LET peeked(first) ==
        IF ~first.ok THEN PeekErr(first)
        ELSE expression_loop(first.lx, <<>>, <<>>, first.offset)
  IN peeked(lexer_peek(lx))

parse_print_statement(lx) ==
  LET done(value, semi) == IF ~semi.ok THEN semi ELSE POk(PrintStmt(value.val), semi.lx)
      after_value(value) ==
        IF ~value.ok THEN value ELSE done(value, expect_eq(value.lx, "Semicolon"))
      after_print(kw) == IF ~kw.ok THEN kw ELSE after_value(parse_expression(kw.lx))
  IN after_print(expect_eq(lx, "Print"))

parse_read_statement(lx) ==
  LET done(identifier, semi) ==
        IF ~semi.ok THEN semi ELSE POk(ReadStmt(identifier.val), semi.lx)
      after_identifier(identifier) ==
        IF ~identifier.ok THEN identifier
        ELSE done(identifier, expect_eq(identifier.lx, "Semicolon"))
      after_read(kw) == IF ~kw.ok THEN kw ELSE after_identifier(expect_identifier(kw.lx))
  IN after_read(expect_eq(lx, "Read"))

\* the optional `:= expression` of a declaration
parse_initial_value(lx) ==
  LET peeked(next) ==
        IF ~next.ok THEN PeekErr(next)
        ELSE IF next.token.kind = "Assign" THEN parse_expression(parser_advance(next.lx))
        ELSE POk(NoExpression, next.lx)
  IN peeked(lexer_peek(lx))

parse_decleration(lx) ==
  LET done(name, type_of, initial_value, semi) ==
        IF ~semi.ok THEN semi
        ELSE POk(DeclareStmt(name.val, type_of.val, initial_value.val), semi.lx)
      after_initial(name, type_of, initial_value) ==
        IF ~initial_value.ok THEN initial_value
        ELSE done(name, type_of, initial_value, expect_eq(initial_value.lx, "Semicolon"))
      after_type(name, type_of) ==
        IF ~type_of.ok THEN type_of
        ELSE after_initial(name, type_of, parse_initial_value(type_of.lx))
      after_colon(name, colon) ==
        IF ~colon.ok THEN colon ELSE after_type(name, expect_type_name(colon.lx))
      after_name(name) ==
        IF ~name.ok THEN name ELSE after_colon(name, expect_eq(name.lx, "Colon"))
      after_var(kw) == IF ~kw.ok THEN kw ELSE after_name(expect_identifier(kw.lx))
  IN after_var(expect_eq(lx, "Var"))

parse_assignment(lx) ==
  LET done(identifier, value, semi) ==
        IF ~semi.ok THEN semi ELSE POk(AssignStmt(identifier.val, value.val), semi.lx)
      after_value(identifier, value) ==
        IF ~value.ok THEN value
        ELSE done(identifier, value, expect_eq(value.lx, "Semicolon"))
      after_assign(identifier, assign) ==
        IF ~assign.ok THEN assign ELSE after_value(identifier, parse_expression(assign.lx))
      after_identifier(identifier) ==
        IF ~identifier.ok THEN identifier
        ELSE after_assign(identifier, expect_eq(identifier.lx, "Assign"))
  IN after_identifier(expect_identifier(lx))

parse_assertion(lx) ==
  LET done(assertion, semi) ==
        IF ~semi.ok THEN semi ELSE POk(AssertStmt(assertion.val), semi.lx)
      after_value(assertion) ==
        IF ~assertion.ok THEN assertion
        ELSE done(assertion, expect_eq(assertion.lx, "Semicolon"))
      after_assert(kw) == IF ~kw.ok THEN kw ELSE after_value(parse_expression(kw.lx))
  IN after_assert(expect_eq(lx, "Assert"))

RECURSIVE parse_for(_)
RECURSIVE parse_statement(_)
RECURSIVE statement_list_loop(_, _)

\* `end for ;` after the body of a for statement
parse_for_end(lx) ==
  LET after_for(for) == IF ~for.ok THEN for ELSE expect_eq(for.lx, "Semicolon")
      after_end(end) == IF ~end.ok THEN end ELSE after_for(expect_eq(end.lx, "For"))
  IN after_end(expect_eq(lx, "End"))

parse_statement_list(lx) == statement_list_loop(lx, <<>>)

parse_for(lx) ==
  LET done(variable, from, to, run, closing) ==
        IF ~closing.ok THEN closing
        ELSE POk(ForStmt(variable.val, from.val, to.val, run.val), closing.lx)
      after_run(variable, from, to, run) ==
        IF ~run.ok THEN run ELSE done(variable, from, to, run, parse_for_end(run.lx))
      after_do(variable, from, to, do) ==
        IF ~do.ok THEN do ELSE after_run(variable, from, to, parse_statement_list(do.lx))
      after_to(variable, from, to) ==
        IF ~to.ok THEN to ELSE after_do(variable, from, to, expect_eq(to.lx, "Do"))
      after_range(variable, from, range) ==
        IF ~range.ok THEN range ELSE after_to(variable, from, parse_expression(range.lx))
      after_from(variable, from) ==
        IF ~from.ok THEN from ELSE after_range(variable, from, expect_eq(from.lx, "Range"))
      after_in(variable, in) ==
        IF ~in.ok THEN in ELSE after_from(variable, parse_expression(in.lx))
      after_variable(variable) ==
        IF ~variable.ok THEN variable ELSE after_in(variable, expect_eq(variable.lx, "In"))
      after_keyword(kw) == IF ~kw.ok THEN kw ELSE after_variable(expect_identifier(kw.lx))
  IN after_keyword(expect_eq(lx, "For"))

parse_statement(lx) ==
  LET peeked(first) ==
        IF ~first.ok THEN PeekErr(first)
        ELSE CASE first.token.kind = "Print" -> parse_print_statement(first.lx)
               [] first.token.kind = "Read" -> parse_read_statement(first.lx)
               [] first.token.kind = "Var" -> parse_decleration(first.lx)
               [] first.token.kind = "Assert" -> parse_assertion(first.lx)
               [] first.token.kind = "Identifier" -> parse_assignment(first.lx)
               [] first.token.kind = "For" -> parse_for(first.lx)
               [] OTHER -> PErr(UnknownStatement(first.token.kind, first.offset), first.lx)
  IN peeked(lexer_peek(lx))

\* the loop of parse_statement_list
statement_list_loop(lx, statements) ==
  LET parsed_one(start, statement) ==
        IF ~statement.ok THEN statement
        ELSE statement_list_loop(statement.lx,
               Append(statements,
                      StatementWithCtx(start, lexer_offset(statement.lx), statement.val)))
      peeked(next) ==
        IF ~next.ok THEN PeekErr(next)
        ELSE IF next.token.kind = "EndOfFile" \/ next.token.kind = "End"
          THEN POk(statements, next.lx)
        ELSE parsed_one(lexer_offset(next.lx), parse_statement(next.lx))
  IN peeked(lexer_peek(lx))

\* recovery that never looks for the semicolon
try_recover_gives_up(lx) == [recovered |-> FALSE, lx |-> lx]

\* Recovery strategy: advance until a semicolon has been consumed; recovery
\* fails at the end of file or at a lexer error.  [recovered, lx]
RECURSIVE try_recover(_)
try_recover(lx) ==
  LET peeked(next) ==
        IF ~next.ok THEN [recovered |-> FALSE, lx |-> next.lx]
        ELSE IF next.token.kind = "Semicolon"
          THEN [recovered |-> TRUE, lx |-> parser_advance(next.lx)]
        ELSE IF next.token.kind = "EndOfFile" THEN [recovered |-> FALSE, lx |-> next.lx]
        ELSE try_recover(parser_advance(next.lx))
  IN peeked(lexer_peek(lx))

RECURSIVE parse_program(_)
parse_program(lx) ==
  LET at_end(list, eof) == IF ~eof.ok THEN eof ELSE POk(list.val, eof.lx)
      resumed(list, rest) == PErrs(list.errs \o rest.errs, rest.lx)
      recover(list, recovery) ==
        IF recovery.recovered THEN resumed(list, parse_program(recovery.lx))
        ELSE PErrs(list.errs, recovery.lx)
      listed(list) ==
        IF list.ok THEN at_end(list, expect_eq(list.lx, "EndOfFile"))
        ELSE recover(list, try_recover(list.lx))
  IN listed(parse_statement_list(lx))

-----------------------------------------------------------------------------
(* Scope tree (semantic/scope_tree.rs).  A ScopeTree is                     *)
(* [scopes, scope_symbols_cache, next_scope_id]: scopes maps a key to       *)
(* [key, parent, children, symbols], the cache maps some keys to the table  *)
(* name -> [scope, symbol] that get_symbols_in_scope computed for them.     *)

Symbol(type_of, is_mutable) == [type_of |-> type_of, is_mutable |-> is_mutable]

\* HashMap::insert
map_insert(map, key, value) ==
  [k \in (DOMAIN map) \cup {key} |-> IF k = key THEN value ELSE map[k]]

\* HashMap::extend: the entries of `more` replace those of `map`
map_extend(map, more) ==
  [k \in (DOMAIN map) \cup (DOMAIN more) |-> IF k \in DOMAIN more THEN more[k] ELSE map[k]]

\* HashMap::remove
map_remove(map, key) == [k \in (DOMAIN map) \ {key} |-> map[k]]

EmptyMap == [k \in {} |-> 0]

get_parent_key(scope) ==
  IF scope.key = scope.parent THEN [some |-> FALSE, key |-> scope.key]
  ELSE [some |-> TRUE, key |-> scope.parent]

\* add_new_scope: [tree, key]
add_new_scope(t, parent_key) ==
  LET key == t.next_scope_id
      linked == IF key # parent_key
                  THEN [t.scopes EXCEPT ![parent_key].children = @ \cup {key}]
                  ELSE t.scopes
      scope == [key |-> key, parent |-> parent_key, children |-> {}, symbols |-> EmptyMap]
  IN [tree |-> [t EXCEPT !.next_scope_id = key + 1,
                         !.scopes = map_insert(linked, key, scope)],
      key |-> key]

ScopeTree_new ==
  add_new_scope([scopes |-> EmptyMap, scope_symbols_cache |-> EmptyMap, next_scope_id |-> 0],
                0).tree

\* the scopes whose caches clear_caches(scope_key) removes: the scope and
\* everything below it
RECURSIVE cleared_scopes(_, _)
cleared_scopes(t, scope_key) ==
  {scope_key} \cup UNION {cleared_scopes(t, c) : c \in t.scopes[scope_key].children}

clear_caches(t, scope_key) ==
  [t EXCEPT !.scope_symbols_cache =
     [k \in (DOMAIN t.scope_symbols_cache) \ cleared_scopes(t, scope_key)
        |-> t.scope_symbols_cache[k]]]

define_symbol(t, scope_key, name, symbol) ==
  clear_caches([t EXCEPT !.scopes[scope_key].symbols = map_insert(@, name, symbol)],
               scope_key)

\* add_symbols: the symbols of the ancestors first, then the scope's own
RECURSIVE add_symbols(_, _)
add_symbols(t, scope) ==
  LET own == [n \in DOMAIN scope.symbols |-> [scope |-> scope.key, symbol |-> scope.symbols[n]]]
      parent == get_parent_key(scope)
  IN IF parent.some /\ parent.key \in DOMAIN t.scopes
       THEN map_extend(add_symbols(t, t.scopes[parent.key]), own)
       ELSE own

traverse_symbols_in_scope(t, scope_key) ==
  [t EXCEPT !.scope_symbols_cache =
     map_insert(@, scope_key, add_symbols(t, t.scopes[scope_key]))]

\* get_symbols_in_scope fills the cache on a miss: the tree afterwards
get_symbols_in_scope(t, scope_key) ==
  IF scope_key \notin DOMAIN t.scope_symbols_cache
    THEN traverse_symbols_in_scope(t, scope_key)
    ELSE t

\* get_symbol: [tree, some, symbol]
get_symbol(t, scope, symbol_name) ==
  LET after == get_symbols_in_scope(t, scope)
      table == after.scope_symbols_cache[scope]
  IN IF symbol_name \in DOMAIN table
       THEN [tree |-> after, some |-> TRUE, symbol |-> table[symbol_name].symbol]
       ELSE [tree |-> after, some |-> FALSE, symbol |-> Symbol("", FALSE)]

\* get_symbol_mut: [tree, some, scope], scope being the scope whose own table
\* holds the symbol that the caller may then change
get_symbol_mut(t, scope, symbol_name) ==
  LET after == get_symbols_in_scope(t, scope)
      table == after.scope_symbols_cache[scope]
  IN IF symbol_name \in DOMAIN table
          /\ symbol_name \in DOMAIN after.scopes[table[symbol_name].scope].symbols
       THEN [tree |-> after, some |-> TRUE, scope |-> table[symbol_name].scope]
       ELSE [tree |-> after, some |-> FALSE, scope |-> scope]

-----------------------------------------------------------------------------
(* Type checker (semantic/type_checker.rs).  Every operation threads the    *)
(* scope tree, because a lookup may fill the symbol cache.                  *)

\* TypeError: RedeclaredIdentifier(name), UndeclaredIdentifier(name),
\* IncompatibleTypes{expected, was}, InvalidBinaryOp(op, left, right),
\* InvalidUnaryOp(op, inner), Print/Read/AssertArgumentError(type),
\* AssignToImmutable(name)
TypeError(kind, name, op, types) == [kind |-> kind, name |-> name, op |-> op, types |-> types]

NoTypeError == TypeError("", <<>>, "", <<>>)

\* Result<TypeName, TypeError> with the tree the call leaves behind
TOk(t, type) == [tree |-> t, ok |-> TRUE, type |-> type, err |-> NoTypeError]
TErr(t, err) == [tree |-> t, ok |-> FALSE, type |-> "", err |-> err]

get_literal_type(literal) ==
  IF literal.type = "StringLiteral" THEN "StringType" ELSE "IntType"

\* a name that is not declared counts as an int
evaluate_variable_type_int(t, scope, variable) ==
  LET found == get_symbol(t, scope, variable) IN
  IF found.some THEN TOk(found.tree, found.symbol.type_of) ELSE TOk(found.tree, "IntType")

evaluate_variable_type(t, scope, variable) ==
  LET found == get_symbol(t, scope, variable) IN
  IF found.some THEN TOk(found.tree, found.symbol.type_of)
  ELSE TErr(found.tree, TypeError("UndeclaredIdentifier", variable, "", <<>>))

\* comparison and equality accept operands of different types
binary_op_type_mixed(op, left, right) ==
  CASE op \in {"Add", "Sub", "Mul", "Div"} /\ left = "IntType" /\ right = "IntType" -> "IntType"
    [] op = "Add" /\ left = "StringType" /\ right = "StringType" -> "StringType"
    [] op \in {"Equal", "LessThan"} -> "BoolType"
    [] op = "And" /\ left = "BoolType" /\ right = "BoolType" -> "BoolType"
    [] OTHER -> ""

\* the match on (op, left, right) of a binary expression: the result type, or
\* "" where the last arm rejects the combination
binary_op_type(op, left, right) ==
  CASE op \in {"Add", "Sub", "Mul", "Div"} /\ left = "IntType" /\ right = "IntType" -> "IntType"
    [] op = "Add" /\ left = "StringType" /\ right = "StringType" -> "StringType"
    [] op = "Equal" /\ left = right -> "BoolType"
    [] op = "LessThan" /\ left = right -> "BoolType"
    [] op = "And" /\ left = "BoolType" /\ right = "BoolType" -> "BoolType"
    [] OTHER -> ""

\* the match on (op, inner) of a unary expression
unary_op_type(op, inner) ==
  IF op = "Not" /\ inner = "BoolType" THEN "BoolType" ELSE ""

RECURSIVE evaluate_expression_type(_, _, _)
evaluate_expression_type(t, scope, expression) ==
  CASE expression.kind = "Literal" -> TOk(t, get_literal_type(expression.value))
    [] expression.kind = "Variable" -> evaluate_variable_type(t, scope, expression.name)
    [] expression.kind = "BinaryOp" ->
         LET left == evaluate_expression_type(t, scope, expression.left) IN
         IF ~left.ok THEN left ELSE
         LET right == evaluate_expression_type(left.tree, scope, expression.right) IN
         IF ~right.ok THEN right ELSE
         LET type == binary_op_type(expression.op, left.type, right.type) IN
         IF type # "" THEN TOk(right.tree, type)
         ELSE TErr(right.tree,
                   TypeError("InvalidBinaryOp", <<>>, expression.op, <<left.type, right.type>>))
    [] expression.kind = "UnaryOp" ->
         LET inner == evaluate_expression_type(t, scope, expression.inner) IN
         IF ~inner.ok THEN inner ELSE
         LET type == unary_op_type(expression.op, inner.type) IN
         IF type # "" THEN TOk(inner.tree, type)
         ELSE TErr(inner.tree, TypeError("InvalidUnaryOp", <<>>, expression.op, <<inner.type>>))

assert_types_equal(t, expected, is) ==
  IF expected # is
    THEN TErr(t, TypeError("IncompatibleTypes", <<>>, "", <<expected, is>>))
    ELSE TOk(t, is)

\* a set_variable_mutability that leaves the flag as it is
set_variable_mutability_kept(t, scope, name, is_mutable) ==
  get_symbol_mut(t, scope, name).tree

\* set_variable_mutability changes the symbol in the table of the scope that
\* owns it; the cached copies of the symbol stay as they are
set_variable_mutability(t, scope, name, is_mutable) ==
  LET found == get_symbol_mut(t, scope, name) IN
  [found.tree EXCEPT !.scopes[found.scope].symbols[name].is_mutable = is_mutable]

assert_mutable(t, scope, name) ==
  LET found == get_symbol(t, scope, name) IN
  IF ~found.symbol.is_mutable
    THEN TErr(found.tree, TypeError("AssignToImmutable", name, "", <<>>))
    ELSE TOk(found.tree, found.symbol.type_of)

\* a declaration that does not look the name up and ignores the initialiser
check_declare_unchecked(t, scope, st) ==
  TOk(define_symbol(t, scope, st.name, Symbol(st.type_of, TRUE)), st.type_of)

\* type_check_statement, the arms without a body
check_declare(t, scope, st) ==
  LET defined(tr) == TOk(define_symbol(tr, scope, st.name, Symbol(st.type_of, TRUE)), st.type_of)
      same_type(same) == IF ~same.ok THEN same ELSE defined(same.tree)
      typed(initial_value_type) ==
        IF ~initial_value_type.ok THEN initial_value_type
        ELSE same_type(assert_types_equal(initial_value_type.tree, st.type_of,
                                          initial_value_type.type))
      looked_up(existing) ==
        IF existing.some
          THEN TErr(existing.tree, TypeError("RedeclaredIdentifier", st.name, "", <<>>))
        ELSE IF st.initial.kind = "None" THEN defined(existing.tree)
        ELSE typed(evaluate_expression_type(existing.tree, scope, st.initial))
  IN looked_up(get_symbol(t, scope, st.name))

check_assign(t, scope, st) ==
  LET same_type(same) == IF ~same.ok THEN same ELSE assert_mutable(same.tree, scope, st.name)
      value_typed(variable_type, value_type) ==
        IF ~value_type.ok THEN value_type
        ELSE same_type(assert_types_equal(value_type.tree, variable_type.type, value_type.type))
      variable_typed(variable_type) ==
        IF ~variable_type.ok THEN variable_type
        ELSE value_typed(variable_type,
                         evaluate_expression_type(variable_type.tree, scope, st.value))
  IN variable_typed(evaluate_variable_type(t, scope, st.name))

\* print of a value of any type
check_print_any(t, scope, st) == evaluate_expression_type(t, scope, st.expr)

check_print(t, scope, st) ==
  LET typed(type) ==
        IF ~type.ok THEN type
        ELSE IF type.type = "BoolType"
          THEN TErr(type.tree, TypeError("PrintArgumentError", <<>>, "", <<"BoolType">>))
        ELSE type
  IN typed(evaluate_expression_type(t, scope, st.expr))

check_read(t, scope, st) ==
  LET typed(type) ==
        IF ~type.ok THEN type
        ELSE IF type.type = "BoolType"
          THEN TErr(type.tree, TypeError("ReadArgumentError", <<>>, "", <<"BoolType">>))
        ELSE type
  IN typed(evaluate_variable_type(t, scope, st.name))

check_assert(t, scope, st) ==
  LET typed(type) ==
        IF ~type.ok THEN type
        ELSE IF type.type # "BoolType"
          THEN TErr(type.tree, TypeError("AssertArgumentError", <<>>, "", <<type.type>>))
        ELSE type
  IN typed(evaluate_expression_type(t, scope, st.expr))

\* the For arm up to the body: [tree, ok, type, err, scope], scope being the
\* new inner scope
check_for_enter(t, scope, st) ==
  LET is_int(type) ==
        IF ~type.ok THEN type ELSE assert_types_equal(type.tree, "IntType", type.type)
      marked(inner_scope, to) ==
        IF ~to.ok THEN to
        ELSE TOk(set_variable_mutability(to.tree, inner_scope, st.variable, FALSE), "IntType")
      from_checked(inner_scope, from) ==
        IF ~from.ok THEN from
        ELSE marked(inner_scope,
                    is_int(evaluate_expression_type(from.tree, inner_scope, st.to)))
      mutable_checked(inner_scope, mutable) ==
        IF ~mutable.ok THEN mutable
        ELSE from_checked(inner_scope,
                          is_int(evaluate_expression_type(mutable.tree, inner_scope, st.from)))
      variable_checked(inner_scope, variable_type) ==
        IF ~variable_type.ok THEN variable_type
        ELSE mutable_checked(inner_scope,
                             assert_mutable(variable_type.tree, inner_scope, st.variable))
      result(inner_scope, r) ==
        [tree |-> r.tree, ok |-> r.ok, type |-> r.type, err |-> r.err, scope |-> inner_scope]
      entered(added) ==
        result(added.key,
               variable_checked(added.key,
                                is_int(evaluate_variable_type(added.tree, added.key,
                                                              st.variable))))
  IN entered(add_new_scope(t, scope))

-----------------------------------------------------------------------------
(* Runtime values (common/types.rs) and i32 arithmetic.  An overflowing     *)
(* +, - or * panics in a build with overflow checks and wraps in a build    *)
(* without them; `build` says which build is running.                       *)

IntV(i) == [type |-> "IntV", v |-> i]
StringV(s) == [type |-> "StringV", v |-> s]
BoolV(b) == [type |-> "BoolV", v |-> b]

\* Option<Value>::None
NoValue == [type |-> "None", v |-> 0]

\* impl From<LiteralValue> for Value
Value_from(literal) ==
  IF literal.type = "IntLiteral" THEN IntV(literal.v) ELSE StringV(literal.v)

\* the result of evaluating: a value, or a panic
EOk(value) == [ok |-> TRUE, value |-> value]
Panic == [ok |-> FALSE, value |-> NoValue]

\* the i32 sum and whether it left the i32 range, computed without leaving it
add_overflows(a, b) ==
  \/ b > 0 /\ a > MaxI32 - b
  \/ b < 0 /\ a < MinI32 - b

wrapping_add(a, b) ==
  IF ~add_overflows(a, b) THEN a + b
  ELSE IF b > 0 THEN (a + MinI32) + (b + MinI32)
  ELSE (a - MinI32) + (b - MinI32)

sub_overflows(a, b) ==
  \/ b < 0 /\ a > MaxI32 + b
  \/ b > 0 /\ a < MinI32 + b

wrapping_sub(a, b) ==
  IF ~sub_overflows(a, b) THEN a - b
  ELSE IF b = MinI32 THEN wrapping_add(a, MinI32)
  ELSE wrapping_add(a, -b)

\* a * b modulo 2^32 by doubling, for b >= 0
RECURSIVE wrapping_mul_nat(_, _)
wrapping_mul_nat(a, b) ==
  IF b = 0 THEN 0
  ELSE LET half == wrapping_mul_nat(a, b \div 2)
           twice == wrapping_add(half, half)
       IN IF b % 2 = 1 THEN wrapping_add(twice, a) ELSE twice

wrapping_mul(a, b) ==
  IF b >= 0 THEN wrapping_mul_nat(a, b)
  ELSE IF b = MinI32 THEN (IF a % 2 = 1 THEN MinI32 ELSE 0)
  ELSE wrapping_sub(0, wrapping_mul_nat(a, -b))

\* division that rounds towards minus infinity
div_floor(a, b) ==
  IF b > 0 THEN a \div b
  ELSE IF a = MinI32 \/ b = MinI32 THEN 0
  ELSE (-a) \div (-b)

\* i32 division truncates towards zero; the caller excludes b = 0 and
\* MinI32 / -1
RECURSIVE div_i32(_, _)
div_i32(a, b) ==
  IF b = MinI32 THEN (IF a = MinI32 THEN 1 ELSE 0)
  ELSE IF b < 0 THEN
    (IF a = MinI32 THEN -(div_i32(a, -b)) ELSE div_i32(-a, -b))
  ELSE IF a >= 0 THEN a \div b
  ELSE (a \div b) + (IF a % b # 0 THEN 1 ELSE 0)

\* the product left the i32 range: dividing the wrapped product gives b back
\* only when nothing was lost
mul_overflows(a, b) ==
  /\ a # 0
  /\ b # 0
  /\ IF a = -1 THEN b = MinI32
     ELSE IF b = -1 THEN a = MinI32
     ELSE div_i32(wrapping_mul(a, b), a) # b

-----------------------------------------------------------------------------
(* Display and parsing of values *)

Digit(d) == Printable[d + 17]

\* the decimal digits of n >= 0
RECURSIVE nat_to_string(_)
nat_to_string(n) ==
  IF n < 10 THEN <<Digit(n)>> ELSE nat_to_string(n \div 10) \o <<Digit(n % 10)>>

\* the decimal digits of n < 0, without the sign
RECURSIVE neg_to_string(_)
neg_to_string(n) ==
  LET d == (10 - (n % 10)) % 10
      rest == (n + d) \div 10
  IN IF rest = 0 THEN <<Digit(d)>> ELSE neg_to_string(rest) \o <<Digit(d)>>

Chars(str) ==
  CASE str = "true" -> <<"t", "r", "u", "e">>
    [] str = "false" -> <<"f", "a", "l", "s", "e">>

\* impl fmt::Display for Value
to_string(value) ==
  CASE value.type = "StringV" -> value.v
    [] value.type = "IntV" ->
         IF value.v < 0 THEN <<"-">> \o neg_to_string(value.v) ELSE nat_to_string(value.v)
    [] value.type = "BoolV" -> IF value.v THEN Chars("true") ELSE Chars("false")

\* str::parse::<i32>: an optional sign and at least one digit, in range;
\* [ok, value]
RECURSIVE parse_signed(_, _, _, _)
parse_signed(digits, i, acc, negative) ==
  IF i > Len(digits) THEN [ok |-> TRUE, value |-> acc]
  ELSE IF ~is_number(digits[i]) THEN [ok |-> FALSE, value |-> 0]
  ELSE LET d == CharCode(digits[i]) - 48 IN
       IF negative
         THEN (IF acc < div_i32(MinI32 + d, 10)
                 THEN [ok |-> FALSE, value |-> 0]
                 ELSE parse_signed(digits, i + 1, acc * 10 - d, negative))
         ELSE (IF acc > (MaxI32 - d) \div 10
                 THEN [ok |-> FALSE, value |-> 0]
                 ELSE parse_signed(digits, i + 1, acc * 10 + d, negative))

str_parse_i32(str) ==
  IF Len(str) = 0 THEN [ok |-> FALSE, value |-> 0]
  ELSE IF str[1] \in {"+", "-"}
    THEN (IF Len(str) = 1 THEN [ok |-> FALSE, value |-> 0]
          ELSE parse_signed(str, 2, 0, str[1] = "-"))
    ELSE parse_signed(str, 1, 0, FALSE)

\* derived PartialEq / PartialOrd of Value: the variants in declaration order,
\* then the payloads
variant_index(value) ==
  CASE value.type = "IntV" -> 0 [] value.type = "StringV" -> 1 [] value.type = "BoolV" -> 2

RECURSIVE string_lt(_, _, _)
string_lt(a, b, i) ==
  IF i > Len(b) THEN FALSE
  ELSE IF i > Len(a) THEN TRUE
  ELSE IF CharCode(a[i]) # CharCode(b[i]) THEN CharCode(a[i]) < CharCode(b[i])
  ELSE string_lt(a, b, i + 1)

value_eq(left, right) == left.type = right.type /\ left.v = right.v

value_lt(left, right) ==
  IF left.type # right.type THEN variant_index(left) < variant_index(right)
  ELSE CASE left.type = "IntV" -> left.v < right.v
         [] left.type = "StringV" -> string_lt(left.v, right.v, 1)
         [] left.type = "BoolV" -> ~left.v /\ right.v

-----------------------------------------------------------------------------
(* Interpreter (runtime/interpreter.rs) *)

RuntimeVariable(type_of, value) == [type_of |-> type_of, value |-> value]

\* an arithmetic result that left the i32 range
overflowed(wrapped) == IF build = "debug" THEN Panic ELSE EOk(IntV(wrapped))

evaluate_binary(op, left, right) ==
  LET ints == left.type = "IntV" /\ right.type = "IntV" IN
  CASE op = "Add" ->
         IF ints THEN (IF add_overflows(left.v, right.v)
                         THEN overflowed(wrapping_add(left.v, right.v))
                         ELSE EOk(IntV(left.v + right.v)))
         ELSE IF left.type = "StringV" /\ right.type = "StringV"
           THEN EOk(StringV(left.v \o right.v))
         ELSE Panic
    [] op = "Sub" ->
         IF ~ints THEN Panic
         ELSE IF sub_overflows(left.v, right.v)
           THEN overflowed(wrapping_sub(left.v, right.v))
         ELSE EOk(IntV(left.v - right.v))
    [] op = "Mul" ->
         IF ~ints THEN Panic
         ELSE IF mul_overflows(left.v, right.v)
           THEN overflowed(wrapping_mul(left.v, right.v))
         ELSE EOk(IntV(left.v * right.v))
    [] op = "Div" ->
         IF ~ints THEN Panic
         ELSE IF right.v = 0 \/ (left.v = MinI32 /\ right.v = -1) THEN Panic
         ELSE EOk(IntV(div_i32(left.v, right.v)))
    [] op = "Equal" -> EOk(BoolV(value_eq(left, right)))
    [] op = "LessThan" -> EOk(BoolV(value_lt(left, right)))
    [] op = "And" ->
         IF left.type = "BoolV" /\ right.type = "BoolV"
           THEN EOk(BoolV(left.v /\ right.v))
           ELSE Panic

RECURSIVE evaluate_expression(_, _)
evaluate_expression(vs, expression) ==
  CASE expression.kind = "Literal" -> EOk(Value_from(expression.value))
    [] expression.kind = "Variable" ->
         IF expression.name \notin DOMAIN vs THEN Panic
         ELSE IF vs[expression.name].value.type = "None" THEN Panic
         ELSE EOk(vs[expression.name].value)
    [] expression.kind = "BinaryOp" ->
         LET left == evaluate_expression(vs, expression.left) IN
         IF ~left.ok THEN Panic ELSE
         LET right == evaluate_expression(vs, expression.right) IN
         IF ~right.ok THEN Panic
         ELSE evaluate_binary(expression.op, left.value, right.value)
    [] expression.kind = "UnaryOp" ->
         LET inner == evaluate_expression(vs, expression.inner) IN
         IF ~inner.ok THEN Panic
         ELSE IF inner.value.type = "BoolV" THEN EOk(BoolV(~inner.value.v))
         ELSE Panic

-----------------------------------------------------------------------------
(* The run as a state machine.  The recursion of type_check_statement and   *)
(* execute_statement over nested statement lists is kept as a stack of      *)
(* frames; every step is one statement handler.                             *)

NoOutcome == [state |-> "none", errors |-> <<>>, value |-> NoValue]
Returned(state, errors) == [state |-> state, errors |-> errors, value |-> NoValue]

NoResult == [state |-> "none", err |-> NoTypeError, type |-> ""]

\* a statement list being type checked in `scope`; `variable` is the loop
\* variable when the list is the body of a for statement
CheckFrame(scope, block, variable) ==
  [scope |-> scope, block |-> block, pc |-> 1, variable |-> variable]

\* a statement list being executed; a loop frame carries the range
\* from .. (to + 1) that is left to iterate
RunFrame(block) ==
  [block |-> block, pc |-> 1, loop |-> FALSE, variable |-> <<>>, next |-> 0, end |-> 0]
LoopFrame(block, variable, next, end) ==
  [block |-> block, pc |-> Len(block) + 1, loop |-> TRUE, variable |-> variable,
   next |-> next, end |-> end]

Top(stack) == stack[Len(stack)]
Pop(stack) == SubSeq(stack, 1, Len(stack) - 1)
\* the statement of the top frame is done: move to the next one
Step(stack) == [stack EXCEPT ![Len(stack)].pc = @ + 1]

AtStatement(stack, kind) ==
  /\ stack # <<>>
  /\ Top(stack).pc <= Len(Top(stack).block)
  /\ Top(stack).block[Top(stack).pc].statement.kind = kind

Current(stack) == Top(stack).block[Top(stack).pc].statement

\* run_script: parse_program()?
ParseProgram ==
  /\ phase = "parse"
  /\ \E result \in {parse_program(BufferedLexer_new(source))} :
       /\ parsed' = [ok |-> result.ok, val |-> result.val, errs |-> result.errs]
       /\ IF result.ok
            THEN /\ program' = result.val
                 /\ phase' = "typecheck"
                 /\ tstack' = <<CheckFrame(0, result.val, <<>>)>>
                 /\ outcome' = outcome
            ELSE /\ program' = program
                 /\ phase' = "done"
                 /\ tstack' = tstack
                 /\ outcome' = Returned("err", result.errs)
  /\ UNCHANGED <<lexer, returned, decoded, input, build, source, tree, tresult, variables, xstack, io>>

Checking == phase = "typecheck" /\ tresult.state = "none"

\* the statement is passed whatever the handler returned
Checked_lenient(result) ==
  /\ tree' = result.tree
  /\ tstack' = Step(tstack)
  /\ UNCHANGED <<tresult, phase, outcome>>
  /\ UNCHANGED <<lexer, returned, decoded, input, build, source, parsed, program, variables, xstack, io>>

\* the end of a handler without a body: Ok(()) moves on, Err(e) ends
\* type_check, and run_script returns Err(vec![e])
Checked(result) ==
  /\ tree' = result.tree
  /\ IF result.ok
       THEN /\ tstack' = Step(tstack)
            /\ UNCHANGED <<tresult, phase, outcome>>
       ELSE /\ tresult' = [state |-> "err", err |-> result.err, type |-> ""]
            /\ phase' = "done"
            /\ outcome' = Returned("err", <<result.err>>)
            /\ tstack' = tstack
  /\ UNCHANGED <<lexer, returned, decoded, input, build, source, parsed, program, variables, xstack, io>>

CheckDeclare ==
  /\ Checking /\ AtStatement(tstack, "Declare")
  /\ Checked(check_declare(tree, Top(tstack).scope, Current(tstack)))

CheckAssign ==
  /\ Checking /\ AtStatement(tstack, "Assign")
  /\ Checked(check_assign(tree, Top(tstack).scope, Current(tstack)))

CheckPrint ==
  /\ Checking /\ AtStatement(tstack, "Print")
  /\ Checked(check_print(tree, Top(tstack).scope, Current(tstack)))

CheckRead ==
  /\ Checking /\ AtStatement(tstack, "Read")
  /\ Checked(check_read(tree, Top(tstack).scope, Current(tstack)))

CheckAssert ==
  /\ Checking /\ AtStatement(tstack, "Assert")
  /\ Checked(check_assert(tree, Top(tstack).scope, Current(tstack)))

\* Statement::For up to the body
CheckFor ==
  /\ Checking /\ AtStatement(tstack, "For")
  /\ \E result \in {check_for_enter(tree, Top(tstack).scope, Current(tstack))} :
       /\ tree' = result.tree
       /\ IF result.ok
            THEN /\ tstack' = Append(tstack, CheckFrame(result.scope, Current(tstack).run,
                                                        Current(tstack).variable))
                 /\ UNCHANGED <<tresult, phase, outcome>>
            ELSE /\ tresult' = [state |-> "err", err |-> result.err, type |-> ""]
                 /\ phase' = "done"
                 /\ outcome' = Returned("err", <<result.err>>)
                 /\ tstack' = tstack
  /\ UNCHANGED <<lexer, returned, decoded, input, build, source, parsed, program, variables, xstack, io>>

\* Statement::For after the body
CheckEndFor ==
  /\ Checking
  /\ Len(tstack) > 1
  /\ Top(tstack).pc > Len(Top(tstack).block)
  /\ tree' = set_variable_mutability(tree, Top(tstack).scope, Top(tstack).variable, TRUE)
  /\ tstack' = Step(Pop(tstack))
  /\ UNCHANGED <<lexer, returned, decoded, input, build, source, phase, parsed, program, tresult, variables, xstack, io, outcome>>

\* type_check returns Ok(context); run_script creates the interpreter
CheckDone ==
  /\ Checking
  /\ Len(tstack) = 1
  /\ Top(tstack).pc > Len(Top(tstack).block)
  /\ tresult' = [state |-> "ok", err |-> NoTypeError, type |-> ""]
  /\ phase' = "execute"
  /\ variables' = EmptyMap
  /\ xstack' = <<RunFrame(program)>>
  /\ UNCHANGED <<lexer, returned, decoded, input, build, source, parsed, program, tree, tstack, io, outcome>>

-----------------------------------------------------------------------------
(* execute_statement *)

Executing == phase = "execute" /\ outcome.state = "none"

\* Interpreter::declare / Interpreter::assign; assign unwraps the lookup
declare(vs, identifier, type_of, value) ==
  map_insert(vs, identifier, RuntimeVariable(type_of, value))

assign(vs, identifier, value) == [vs EXCEPT ![identifier].value = value]

\* a panic unwinds out of run_script: nothing is returned
Panicked ==
  /\ outcome' = Returned("panic", <<>>)
  /\ phase' = "done"
  /\ UNCHANGED <<lexer, returned, decoded, input, build, source, parsed, program, tree, tstack, tresult, variables, xstack, io>>

\* the statement is done with these variables and this io
Executed(vs, newio) ==
  /\ variables' = vs
  /\ io' = newio
  /\ xstack' = Step(xstack)
  /\ UNCHANGED <<lexer, returned, decoded, input, build, source, phase, parsed, program, tree, tstack, tresult, outcome>>

\* a write that ends the chunk with a newline
write_line_newline(i, str) == [i EXCEPT !.output = Append(@, [str EXCEPT !.text = @ \o <<"\n">>])]

\* Io::write_line / Io::read_line on the capability
write_line(i, str) == [i EXCEPT !.output = Append(@, str)]

\* what is written: the text, and for a failed assertion the expression whose
\* Debug form follows the text
Line(text) == [text |-> text, expr |-> NoExpression]
AssertionFailed(expr) ==
  [text |-> <<"A", "S", "S", "E", "R", "T", "I", "O", "N", " ",
              "F", "A", "I", "L", "E", "D", ":", " ">>,
   expr |-> expr]

ExecDeclare ==
  /\ Executing /\ AtStatement(xstack, "Declare")
  /\ LET st == Current(xstack) IN
     IF st.initial.kind = "None"
       THEN Executed(declare(variables, st.name, st.type_of, NoValue), io)
       ELSE LET initial_value == evaluate_expression(variables, st.initial) IN
            IF ~initial_value.ok THEN Panicked
            ELSE Executed(declare(variables, st.name, st.type_of, initial_value.value), io)

ExecAssign ==
  /\ Executing /\ AtStatement(xstack, "Assign")
  /\ LET st == Current(xstack)
         value == evaluate_expression(variables, st.value)
     IN IF ~value.ok \/ st.name \notin DOMAIN variables THEN Panicked
        ELSE Executed(assign(variables, st.name, value.value), io)

ExecPrint ==
  /\ Executing /\ AtStatement(xstack, "Print")
  /\ LET value == evaluate_expression(variables, Current(xstack).expr) IN
     IF ~value.ok THEN Panicked
     ELSE Executed(variables, write_line(io, Line(to_string(value.value))))

ExecRead ==
  /\ Executing /\ AtStatement(xstack, "Read")
  /\ LET name == Current(xstack).name IN
     IF io.input = <<>> THEN Panicked
     ELSE LET str_value == Head(io.input)
              rest == [io EXCEPT !.input = Tail(@)]
          IN IF name \notin DOMAIN variables
               THEN Panicked
             ELSE IF variables[name].type_of = "StringType"
               THEN Executed(assign(variables, name, StringV(str_value)), rest)
             ELSE IF variables[name].type_of = "IntType"
               THEN LET as_int == str_parse_i32(str_value) IN
                    IF ~as_int.ok THEN Panicked
                    ELSE Executed(assign(variables, name, IntV(as_int.value)), rest)
             ELSE Panicked

ExecAssert ==
  /\ Executing /\ AtStatement(xstack, "Assert")
  /\ LET expr == Current(xstack).expr
         value == evaluate_expression(variables, expr)
     IN IF ~value.ok \/ value.value.type # "BoolV" THEN Panicked
        ELSE IF value.value.v THEN Executed(variables, io)
        ELSE Executed(variables, write_line(io, AssertionFailed(expr)))

\* the range stops at the upper bound itself
range_end_exclusive(to) == EOk(to)

\* the end of the range from .. (to + 1)
range_end(to) == evaluate_binary("Add", to, IntV(1))

\* Statement::For: the bounds are evaluated and the range from .. (to + 1)
\* is built
ExecFor ==
  /\ Executing /\ AtStatement(xstack, "For")
  /\ LET st == Current(xstack)
         from_value == evaluate_expression(variables, st.from)
         to_value == evaluate_expression(variables, st.to)
     IN IF ~from_value.ok \/ ~to_value.ok THEN Panicked
        ELSE IF from_value.value.type # "IntV" \/ to_value.value.type # "IntV" THEN Panicked
        ELSE LET end == range_end(to_value.value) IN
             IF ~end.ok THEN Panicked
             ELSE /\ xstack' = Append(xstack, LoopFrame(st.run, st.variable,
                                                        from_value.value.v, end.value.v))
                  /\ UNCHANGED <<lexer, returned, decoded, input, build, source, phase, parsed, program, tree, tstack, tresult,
                                 variables, io, outcome>>

AtLoopHead ==
  /\ xstack # <<>>
  /\ Top(xstack).loop
  /\ Top(xstack).pc > Len(Top(xstack).block)

\* Range::next returns Some(i): the loop variable is assigned and the body
\* starts
ExecForIterate ==
  /\ Executing /\ AtLoopHead
  /\ Top(xstack).next < Top(xstack).end
  /\ IF Top(xstack).variable \notin DOMAIN variables THEN Panicked
     ELSE /\ variables' = assign(variables, Top(xstack).variable, IntV(Top(xstack).next))
          /\ xstack' = [xstack EXCEPT ![Len(xstack)].next = @ + 1, ![Len(xstack)].pc = 1]
          /\ UNCHANGED <<lexer, returned, decoded, input, build, source, phase, parsed, program, tree, tstack, tresult, io, outcome>>

\* Range::next returns None: the for statement is done
ExecForExit ==
  /\ Executing /\ AtLoopHead
  /\ ~(Top(xstack).next < Top(xstack).end)
  /\ xstack' = Step(Pop(xstack))
  /\ UNCHANGED <<lexer, returned, decoded, input, build, source, phase, parsed, program, tree, tstack, tresult, variables, io, outcome>>

\* execute returns; run_script returns Ok(())
ExecDone ==
  /\ Executing
  /\ Len(xstack) = 1
  /\ Top(xstack).pc > Len(Top(xstack).block)
  /\ outcome' = Returned("ok", <<>>)
  /\ phase' = "done"
  /\ UNCHANGED <<lexer, returned, decoded, input, build, source, parsed, program, tree, tstack, tresult, variables, xstack, io>>

-----------------------------------------------------------------------------
(* Expressions: source text -> parse_expression -> evaluate_expression *)

BinaryOps == {"Add", "Sub", "Mul", "Div", "LessThan", "Equal", "And"}

\* the source form of an operator
Symbol_of(op) ==
  CASE op = "Add" -> "+" [] op = "Sub" -> "-" [] op = "Mul" -> "*" [] op = "Div" -> "/"
    [] op = "LessThan" -> "<" [] op = "Equal" -> "=" [] op = "And" -> "&" [] op = "Not" -> "!"

\* a case [shape, a, op1, b, op2, c] over integer operands:
\*   "flat"  a op1 b op2 c        "left"  ( a op1 b ) op2 c
\*   "right" a op1 ( b op2 c )    "not"   ! a op1 b
ExprCase(shape, a, op1, b, op2, c) ==
  [shape |-> shape, a |-> a, op1 |-> op1, b |-> b, op2 |-> op2, c |-> c]

Sp == <<" ">>

RenderExpr(e) ==
  LET a == nat_to_string(e.a)
      b == nat_to_string(e.b)
      c == nat_to_string(e.c)
      op1 == <<Symbol_of(e.op1)>>
      op2 == <<Symbol_of(e.op2)>>
  IN CASE e.shape = "flat" -> a \o Sp \o op1 \o Sp \o b \o Sp \o op2 \o Sp \o c \o <<";">>
       [] e.shape = "left" ->
            <<"(">> \o a \o Sp \o op1 \o Sp \o b \o <<")">> \o Sp \o op2 \o Sp \o c \o <<";">>
       [] e.shape = "right" ->
            a \o Sp \o op1 \o Sp \o <<"(">> \o b \o Sp \o op2 \o Sp \o c \o <<")">> \o <<";">>
       [] e.shape = "not" -> <<"!">> \o a \o Sp \o op1 \o Sp \o b \o <<";">>

\* the examples of the documentation
ExprExamples ==
  { ExprCase("flat", 10, "Sub", 3, "Sub", 2),
    ExprCase("flat", 1, "Sub", 2, "Add", 3),
    ExprCase("right", 4, "Add", 6, "Mul", 2),
    ExprCase("left", 1, "Add", 2, "Mul", 3) }

ExprCases ==
  ExprExamples
    \cup { ExprCase(shape, a, op1, b, op2, c) :
             shape \in {"flat", "left", "right"}, a \in 1..MaxOperand, op1 \in BinaryOps,
             b \in 1..MaxOperand, op2 \in BinaryOps, c \in 1..MaxOperand }
    \cup { ExprCase("not", a, op1, b, op1, b) :
             a \in 1..MaxOperand, op1 \in BinaryOps, b \in 1..MaxOperand }

\* Option<FilePosition>: None
NoPosition == [some |-> FALSE, offset |-> 0, column |-> 0, row |-> 0]

\* the parser and the drivers build their own lexer; none is driven directly
NoLexer == BufferedLexer_new(<<>>)

\* everything but the case and the source text, before anything has run
Fresh(first) ==
  /\ phase = first
  /\ parsed = [ok |-> FALSE, val |-> <<>>, errs |-> <<>>]
  /\ program = <<>>
  /\ tree = ScopeTree_new
  /\ tstack = <<>>
  /\ tresult = NoResult
  /\ variables = EmptyMap
  /\ xstack = <<>>
  /\ lexer = NoLexer
  /\ returned = <<>>
  /\ decoded = NoPosition
  /\ outcome = NoOutcome

InitExpr ==
  /\ input \in ExprCases
  /\ source = RenderExpr(input)
  /\ build = "debug"
  /\ io = [input |-> <<>>, output |-> <<>>]
  /\ Fresh("parse_expression")

\* Parser::parse_expression on a lexer over the source
ParseExpression ==
  /\ phase = "parse_expression"
  /\ \E result \in {parse_expression(BufferedLexer_new(source))} :
       /\ parsed' = [ok |-> result.ok, val |-> result.val, errs |-> result.errs]
       /\ phase' = IF result.ok THEN "evaluate" ELSE "done"
  /\ UNCHANGED <<lexer, returned, decoded, input, build, source, program, tree, tstack, tresult, variables, xstack, io,
                 outcome>>

\* Interpreter::evaluate_expression on the parsed expression
EvaluateExpression ==
  /\ phase = "evaluate"
  /\ LET result == evaluate_expression(variables, parsed.val) IN
     outcome' = [state |-> IF result.ok THEN "ok" ELSE "panic", errors |-> <<>>,
                 value |-> result.value]
  /\ phase' = "done"
  /\ UNCHANGED <<lexer, returned, decoded, input, build, source, parsed, program, tree, tstack, tresult, variables,
                 xstack, io>>

NextExpr == ParseExpression \/ EvaluateExpression

SpecExpr == InitExpr /\ [][NextExpr]_vars

-----------------------------------------------------------------------------
(* Properties of parse_expression (checked under SpecExpr) *)

Lit(n) == Literal(IntLiteral(n))

\* the documented precedence table
DocPrecedence(op) ==
  CASE op = "Not" -> 3
    [] op \in {"Mul", "Div"} -> 2
    [] op \in {"Add", "Sub", "And"} -> 1
    [] op \in {"LessThan", "Equal"} -> 0

ExpressionParsed == phase \in {"evaluate", "done"} /\ parsed.ok

LeftNested(e) == BinaryOp(e.op2, BinaryOp(e.op1, Lit(e.a), Lit(e.b)), Lit(e.c))
RightNested(e) == BinaryOp(e.op1, Lit(e.a), BinaryOp(e.op2, Lit(e.b), Lit(e.c)))

\* C2: operators of equal precedence associate to the left: a op1 b op2 c
\* with prec(op1) = prec(op2) parses to BinaryOp(op2, BinaryOp(op1, a, b), c),
\* and 10 - 3 - 2 evaluates to 5, 1 - 2 + 3 to 2.
C2_LeftAssociative ==
  /\ (/\ phase # "parse_expression"
      /\ input.shape = "flat"
      /\ DocPrecedence(input.op1) = DocPrecedence(input.op2))
       => (parsed.ok /\ parsed.val = LeftNested(input))
  /\ (phase = "done" /\ input = ExprCase("flat", 10, "Sub", 3, "Sub", 2))
       => outcome.value = IntV(5)
  /\ (phase = "done" /\ input = ExprCase("flat", 1, "Sub", 2, "Add", 3))
       => outcome.value = IntV(2)

\* what the parser does with 10 - 3 - 2
C2_RightNested ==
  /\ phase = "done"
  /\ input = ExprCase("flat", 10, "Sub", 3, "Sub", 2)
  /\ parsed.val = RightNested(input)
  /\ outcome.value = IntV(9)

\* C3: parse_expression follows the precedence table and parentheses: in
\* a op1 b op2 c the tighter operator takes b, a parenthesised sub-expression
\* is one operand of the operator outside it, ! binds tighter than every binary
\* operator, 4 + (6 * 2) evaluates to 16 and (1 + 2) * 3 to 9.
C3_Precedence ==
  /\ phase # "parse_expression" =>
       /\ (input.shape = "flat" /\ DocPrecedence(input.op2) > DocPrecedence(input.op1))
            => (parsed.ok /\ parsed.val = RightNested(input))
       /\ (input.shape = "flat" /\ DocPrecedence(input.op1) > DocPrecedence(input.op2))
            => (parsed.ok /\ parsed.val = LeftNested(input))
       /\ input.shape = "left" => (parsed.ok /\ parsed.val = LeftNested(input))
       /\ input.shape = "right" => (parsed.ok /\ parsed.val = RightNested(input))
       /\ input.shape = "not"
            => (parsed.ok
                /\ parsed.val = BinaryOp(input.op1, UnaryOp("Not", Lit(input.a)), Lit(input.b)))
  /\ (phase = "done" /\ input = ExprCase("right", 4, "Add", 6, "Mul", 2))
       => outcome.value = IntV(16)
  /\ (phase = "done" /\ input = ExprCase("left", 1, "Add", 2, "Mul", 3))
       => outcome.value = IntV(9)

C3_TighterSecond ==
  /\ phase = "done"
  /\ input = ExprCase("flat", 1, "Add", 2, "Mul", 3)
  /\ parsed.val = RightNested(input)
  /\ outcome.value = IntV(7)

-----------------------------------------------------------------------------
(* Operator typing: evaluate_expression_type on one operator applied to     *)
(* operands of known types                                                  *)

Str(chars) == Literal(StringLiteral(chars))

\* a scope tree whose global scope declares n : int, s : string, b : bool
DeclaredTree ==
  define_symbol(
    define_symbol(
      define_symbol(ScopeTree_new, 0, <<"n">>, Symbol("IntType", TRUE)),
      0, <<"s">>, Symbol("StringType", TRUE)),
    0, <<"b">>, Symbol("BoolType", TRUE))

\* operands [type, expr]: a literal or compound expression and a variable of
\* each type
Operands ==
  { [type |-> "IntType", expr |-> Lit(1)],
    [type |-> "IntType", expr |-> Variable(<<"n">>)],
    [type |-> "StringType", expr |-> Str(<<"a">>)],
    [type |-> "StringType", expr |-> Variable(<<"s">>)],
    [type |-> "BoolType", expr |-> BinaryOp("Equal", Lit(1), Lit(1))],
    [type |-> "BoolType", expr |-> Variable(<<"b">>)] }

OpCase(op, left, right) == [op |-> op, left |-> left, right |-> right]

OpCases ==
  { OpCase(op, left, right) : op \in BinaryOps, left \in Operands, right \in Operands }
    \cup { OpCase("Not", inner, inner) : inner \in Operands }

OpExpression(c) ==
  IF c.op = "Not" THEN UnaryOp("Not", c.left.expr)
  ELSE BinaryOp(c.op, c.left.expr, c.right.expr)

InitOps ==
  /\ input \in OpCases
  /\ source = <<>>
  /\ build = "debug"
  /\ io = [input |-> <<>>, output |-> <<>>]
  /\ phase = "type_of"
  /\ parsed = [ok |-> TRUE, val |-> OpExpression(input), errs |-> <<>>]
  /\ program = <<>>
  /\ tree = DeclaredTree
  /\ tstack = <<>>
  /\ tresult = NoResult
  /\ variables = EmptyMap
  /\ xstack = <<>>
  /\ lexer = NoLexer
  /\ returned = <<>>
  /\ decoded = NoPosition
  /\ outcome = NoOutcome

\* TypeCheckingContext::evaluate_expression_type in the global scope
TypeOfExpression ==
  /\ phase = "type_of"
  /\ LET result == evaluate_expression_type(tree, 0, parsed.val) IN
     /\ tree' = result.tree
     /\ tresult' = [state |-> IF result.ok THEN "ok" ELSE "err", err |-> result.err,
                    type |-> result.type]
  /\ phase' = "done"
  /\ UNCHANGED <<lexer, returned, decoded, input, build, source, parsed, program, tstack, variables, xstack, io, outcome>>

NextOps == TypeOfExpression

SpecOps == InitOps /\ [][NextOps]_vars

\* the documented typing table: the result type, or "" where the combination
\* is an error
DocType(op, left, right) ==
  CASE op = "Add" /\ left = "IntType" /\ right = "IntType" -> "IntType"
    [] op = "Add" /\ left = "StringType" /\ right = "StringType" -> "StringType"
    [] op \in {"Sub", "Mul", "Div"} /\ left = "IntType" /\ right = "IntType" -> "IntType"
    [] op \in {"LessThan", "Equal"} /\ left = right -> "BoolType"
    [] op = "And" /\ left = "BoolType" /\ right = "BoolType" -> "BoolType"
    [] op = "Not" /\ left = "BoolType" -> "BoolType"
    [] OTHER -> ""

\* C10: evaluate_expression_type returns exactly the documented type for every
\* operator and operand types, and InvalidBinaryOp / InvalidUnaryOp carrying
\* the operator and the operand types for every other combination.
C10_OperatorTypes ==
  phase = "done" =>
    LET doc == DocType(input.op, input.left.type, input.right.type) IN
    IF doc # ""
      THEN tresult.state = "ok" /\ tresult.type = doc
      ELSE /\ tresult.state = "err"
           /\ tresult.err =
                IF input.op = "Not"
                  THEN TypeError("InvalidUnaryOp", <<>>, "Not", <<input.left.type>>)
                  ELSE TypeError("InvalidBinaryOp", <<>>, input.op,
                                 <<input.left.type, input.right.type>>)

\* int = string has been rejected
C10_MixedEqualRejected ==
  /\ phase = "done"
  /\ input.op = "Equal"
  /\ input.left.type = "IntType"
  /\ input.right.type = "StringType"
  /\ tresult.state = "err"
  /\ tresult.err.kind = "InvalidBinaryOp"

-----------------------------------------------------------------------------
(* Source text of whole programs.  A program is written as a sequence of    *)
(* words; a word is spelled as characters and words are joined by spaces.   *)

Spell(word) ==
  CASE word = "var" -> <<"v", "a", "r">>
    [] word = "for" -> <<"f", "o", "r">>
    [] word = "end" -> <<"e", "n", "d">>
    [] word = "in" -> <<"i", "n">>
    [] word = "do" -> <<"d", "o">>
    [] word = "read" -> <<"r", "e", "a", "d">>
    [] word = "print" -> <<"p", "r", "i", "n", "t">>
    [] word = "assert" -> <<"a", "s", "s", "e", "r", "t">>
    [] word = "int" -> <<"i", "n", "t">>
    [] word = "string" -> <<"s", "t", "r", "i", "n", "g">>
    [] word = "bool" -> <<"b", "o", "o", "l">>
    [] word = ":=" -> <<":", "=">>
    [] word = ".." -> <<".", ".">>
    [] word = "\"a\"" -> <<"\"", "a", "\"">>
    [] word = "/*" -> <<"/", "*">>
    [] word = "*/" -> <<"*", "/">>
    [] word = "//" -> <<"/", "/">>
    [] OTHER -> <<word>>

RECURSIVE Text(_)
Text(words) ==
  IF words = <<>> THEN <<>>
  ELSE IF Len(words) = 1 THEN Spell(words[1])
  ELSE Spell(words[1]) \o Sp \o Text(Tail(words))

\* the words followed by a number
WithNumber(words, n) == Text(words) \o Sp \o nat_to_string(n)

RECURSIVE Concat(_)
Concat(texts) ==
  IF texts = <<>> THEN <<>>
  ELSE IF Len(texts) = 1 THEN texts[1]
  ELSE texts[1] \o Sp \o Concat(Tail(texts))

\* the lines the Io capability holds for read_line
InputLines == << <<"7">>, <<"8">> >>

InitialIo == [input |-> InputLines, output |-> <<>>]

-----------------------------------------------------------------------------
(* Loop programs:                                                           *)
(*   var v : int := 9; var w : int; for v in a..b do BODY end for;          *)

LoopBody(c) ==
  CASE c.body = "print" -> Text(<<"print", "v", ";">>)
    [] c.body = "nested" ->
         Concat(<< Text(<<"print", "v", ";">>),
                   WithNumber(<<"for", "w", "in">>, c.c),
                   WithNumber(<<"..">>, c.d),
                   Text(<<"do", "print", "w", ";", "end", "for", ";">>) >>)
    [] c.body = "assign" -> Text(<<"print", "v", ";", "v", ":=", "7", ";">>)
    [] c.body = "read" -> Text(<<"read", "v", ";">>)

LoopSource(c) ==
  Concat(<< Text(<<"var", "v", ":", "int", ":=", "9", ";", "var", "w", ":", "int", ";">>),
            WithNumber(<<"for", "v", "in">>, c.a),
            WithNumber(<<"..">>, c.b),
            Text(<<"do">>),
            LoopBody(c),
            Text(<<"end", "for", ";">>) >>)

LoopCase(body, a, b, c, d) == [kind |-> "loop", body |-> body, a |-> a, b |-> b, c |-> c, d |-> d]

LoopCases ==
  { LoopCase(body, a, b, 0, 0) :
      body \in {"print", "assign", "read"}, a \in 0..MaxBound, b \in (0..MaxBound) \cup {MaxI32} }
    \cup { LoopCase("nested", a, b, c, d) :
             a \in 0..MaxBound, b \in 0..MaxBound, c \in 0..MaxBound, d \in 0..MaxBound }

-----------------------------------------------------------------------------
(* Loop bodies that write variables:                                        *)
(*   var i : int; var j : int; for i in 0..1 do BODY end for;               *)
(* BODY is one or two of these statements.                                  *)

BodyStatements ==
  {"assign_i", "print_i", "declare_k", "nested_assign_i", "nested_assign_j", "nested_print_j"}

NestedFor(words) == <<"for", "j", "in", "0", "..", "1", "do">> \o words \o <<"end", "for", ";">>

BodyWords(tag) ==
  CASE tag = "assign_i" -> <<"i", ":=", "5", ";">>
    [] tag = "print_i" -> <<"print", "i", ";">>
    [] tag = "declare_k" -> <<"var", "k", ":", "int", ";">>
    [] tag = "nested_assign_i" -> NestedFor(<<"i", ":=", "5", ";">>)
    [] tag = "nested_assign_j" -> NestedFor(<<"j", ":=", "5", ";">>)
    [] tag = "nested_print_j" -> NestedFor(<<"print", "j", ";">>)

RECURSIVE BodyText(_)
BodyText(tags) ==
  IF tags = <<>> THEN <<>> ELSE BodyWords(Head(tags)) \o BodyText(Tail(tags))

MutSource(c) ==
  Text(<<"var", "i", ":", "int", ";", "var", "j", ":", "int", ";",
         "for", "i", "in", "0", "..", "1", "do">>
       \o BodyText(c.body)
       \o <<"end", "for", ";">>)

MutCases ==
  { [kind |-> "mut", body |-> <<t>>] : t \in BodyStatements }
    \cup { [kind |-> "mut", body |-> <<t, u>>] : t \in BodyStatements, u \in BodyStatements }

-----------------------------------------------------------------------------
(* Declarations without an initialiser, read before any assignment *)

UninitSource(c) ==
  CASE c.use = "print_int" -> Text(<<"var", "a", ":", "int", ";", "print", "a", ";">>)
    [] c.use = "print_string" -> Text(<<"var", "b", ":", "string", ";", "print", "b", ";">>)
    [] c.use = "assert_bool" ->
         Text(<<"var", "c", ":", "bool", ";", "assert", "(", "!", "c", ")", ";">>)
    [] c.use = "add_int" ->
         Text(<<"var", "a", ":", "int", ";", "print", "a", "+", "1", ";">>)
    [] c.use = "both" ->
         Text(<<"var", "a", ":", "int", ";", "print", "a", ";",
                "var", "b", ":", "string", ";", "print", "b", ";">>)

UninitCases ==
  { [kind |-> "uninit", use |-> u] :
      u \in {"print_int", "print_string", "assert_bool", "add_int", "both"} }

-----------------------------------------------------------------------------
(* Scripts: var x : int := 1; followed by up to two statements, some of     *)
(* which do not parse and some of which do not type check                   *)

ScriptStatements ==
  {"print", "assign", "read", "assert", "for", "declare",
   "undeclared", "mismatch", "print_bool", "no_semicolon", "no_expression"}

ScriptWords(tag) ==
  CASE tag = "print" -> <<"print", "x", ";">>
    [] tag = "assign" -> <<"x", ":=", "x", "+", "1", ";">>
    [] tag = "read" -> <<"read", "x", ";">>
    [] tag = "assert" -> <<"assert", "(", "x", "=", "2", ")", ";">>
    [] tag = "for" -> <<"for", "x", "in", "0", "..", "1", "do", "print", "x", ";", "end", "for", ";">>
    [] tag = "declare" -> <<"var", "y", ":", "string", ":=", "\"a\"", ";">>
    [] tag = "undeclared" -> <<"print", "z", ";">>
    [] tag = "mismatch" -> <<"x", ":=", "\"a\"", ";">>
    [] tag = "print_bool" -> <<"print", "x", "=", "1", ";">>
    [] tag = "no_semicolon" -> <<"print", "x">>
    [] tag = "no_expression" -> <<"print", ";">>

ParseFailures == {"no_semicolon", "no_expression"}
TypeFailures == {"undeclared", "mismatch", "print_bool"}

RECURSIVE ScriptText(_)
ScriptText(tags) ==
  IF tags = <<>> THEN <<>> ELSE ScriptWords(Head(tags)) \o ScriptText(Tail(tags))

ScriptSource(c) == Text(<<"var", "x", ":", "int", ":=", "1", ";">> \o ScriptText(c.body))

ScriptCases ==
  { [kind |-> "script", body |-> <<t>>] : t \in ScriptStatements }
    \cup { [kind |-> "script", body |-> <<t, u>>] : t \in ScriptStatements, u \in ScriptStatements }

-----------------------------------------------------------------------------
(* Prints and reads:  var x : int := 0 - 3 ; var s : string := "a" ;        *)
(* followed by up to MaxStatements print and read statements                *)

IoStatements == {"print_x", "print_s", "read_x", "read_s"}

IoWords(tag) ==
  CASE tag = "print_x" -> <<"print", "x", ";">>
    [] tag = "print_s" -> <<"print", "s", ";">>
    [] tag = "read_x" -> <<"read", "x", ";">>
    [] tag = "read_s" -> <<"read", "s", ";">>

RECURSIVE IoText(_)
IoText(tags) == IF tags = <<>> THEN <<>> ELSE IoWords(Head(tags)) \o IoText(Tail(tags))

IoPrelude ==
  <<"var", "x", ":", "int", ":=", "0", "-", "3", ";", "var", "s", ":", "string", ":=", "\"a\"", ";">>

IoSource(c) == Text(IoPrelude \o IoText(c.body))

IoCases ==
  UNION { { [kind |-> "io", body |-> body] : body \in [1..n -> IoStatements] } :
            n \in 1..MaxStatements }

-----------------------------------------------------------------------------
(* Divisions:  var q : int := A / B ; print q ;  with A and B written as    *)
(* n, ( 0 - n ) or ( ( 0 - 2147483647 ) - 1 )                               *)

DivOperands == (-MaxOperand..MaxOperand) \cup {-7, 10, 100, 101, MaxI32, MinI32}

OperandText(n) ==
  IF n >= 0 THEN nat_to_string(n)
  ELSE IF n = MinI32
    THEN Concat(<<Text(<<"(", "(", "0", "-">>), nat_to_string(MaxI32), Text(<<")", "-", "1", ")">>)>>)
  ELSE Concat(<<Text(<<"(", "0", "-">>), nat_to_string(-n), Text(<<")">>)>>)

DivSource(c) ==
  Concat(<<Text(<<"var", "q", ":", "int", ":=">>), OperandText(c.a), Text(<<"/">>),
           OperandText(c.b), Text(<<";", "print", "q", ";">>)>>)

DivCases == { [kind |-> "div", a |-> a, b |-> b] : a \in DivOperands, b \in DivOperands }

-----------------------------------------------------------------------------
(* One flat environment:                                                    *)
(*   var i : int ; var j : int ; for j in 0 .. 1 do BODY end for ;          *)
(* BODY is up to MaxStatements statements that declare and use the name k,  *)
(* in the body itself and in the body of a for statement inside it          *)

FlatStatements == {"inner_k_int", "k_string", "k_int", "use_string", "use_int", "read_k"}

FlatWords(tag) ==
  CASE tag = "inner_k_int" ->
         <<"for", "i", "in", "0", "..", "1", "do", "var", "k", ":", "int", ":=", "1", ";",
           "print", "k", "+", "1", ";", "end", "for", ";">>
    [] tag = "k_string" -> <<"var", "k", ":", "string", ":=", "\"a\"", ";">>
    [] tag = "k_int" -> <<"var", "k", ":", "int", ":=", "2", ";">>
    [] tag = "use_string" -> <<"print", "k", "+", "\"a\"", ";">>
    [] tag = "use_int" -> <<"for", "i", "in", "k", "..", "k", "+", "1", "do", "print", "k", "*", "i", ";",
                            "end", "for", ";">>
    [] tag = "read_k" -> <<"read", "k", ";">>

RECURSIVE FlatText(_)
FlatText(tags) ==
  IF tags = <<>> THEN <<>> ELSE Text(FlatWords(Head(tags))) \o Sp \o FlatText(Tail(tags))

FlatSource(c) ==
  Text(<<"var", "i", ":", "int", ";", "var", "j", ":", "int", ";",
         "for", "j", "in", "0", "..", "1", "do">>)
    \o Sp \o FlatText(c.body) \o Text(<<"end", "for", ";">>)

FlatCases ==
  UNION { { [kind |-> "flat", body |-> body] : body \in [1..n -> FlatStatements] } :
            n \in 1..MaxStatements }

-----------------------------------------------------------------------------
(* run_script on the generated programs *)

InitCase ==
  \/ input \in LoopCases /\ source = LoopSource(input)
  \/ input \in MutCases /\ source = MutSource(input)
  \/ input \in UninitCases /\ source = UninitSource(input)
  \/ input \in ScriptCases /\ source = ScriptSource(input)
  \/ input \in IoCases /\ source = IoSource(input)
  \/ input \in DivCases /\ source = DivSource(input)
  \/ input \in FlatCases /\ source = FlatSource(input)

Init ==
  /\ InitCase
  /\ build \in {"debug", "release"}
  /\ io = InitialIo
  /\ Fresh("parse")

Next ==
  \/ ParseProgram
  \/ CheckDeclare \/ CheckAssign \/ CheckPrint \/ CheckRead \/ CheckAssert
  \/ CheckFor \/ CheckEndFor \/ CheckDone
  \/ ExecDeclare \/ ExecAssign \/ ExecPrint \/ ExecRead \/ ExecAssert
  \/ ExecFor \/ ExecForIterate \/ ExecForExit \/ ExecDone

Spec == Init /\ [][Next]_vars

-----------------------------------------------------------------------------
(* Programs for parse_program: up to MaxStatements of these pieces, some of *)
(* which are not statements                                                 *)

ParsePieces ==
  {"print", "for", "unknown", "no_identifier", "for_body",
   "no_semicolon", "no_semicolon_declare", "no_semicolon_for", "open_comment", "bare_comment"}

PieceWords(tag) ==
  CASE tag = "print" -> <<"print", "1", ";">>
    [] tag = "for" -> <<"for", "x", "in", "0", "..", "1", "do", "print", "1", ";", "end", "for", ";">>
    [] tag = "unknown" -> <<"do", ";">>
    [] tag = "no_identifier" -> <<"read", "1", ";">>
    [] tag = "for_body" -> <<"for", "x", "in", "0", "..", "1", "do", "do", ";", "end", "for", ";">>
    [] tag = "no_semicolon" -> <<"print", "1">>
    [] tag = "no_semicolon_declare" -> <<"var", "x", ":", "int">>
    [] tag = "no_semicolon_for" ->
         <<"for", "x", "in", "0", "..", "1", "do", "print", "1", ";", "end", "for">>
    [] tag = "open_comment" -> <<"/*", "*", "*", "/", "*">>
    [] tag = "bare_comment" -> <<"/*">>

RECURSIVE PieceText(_)
PieceText(tags) ==
  IF tags = <<>> THEN <<>> ELSE PieceWords(Head(tags)) \o PieceText(Tail(tags))

ParseSource(c) == Text(PieceText(c.body))

ParseCases ==
  UNION { { [kind |-> "parse", body |-> body] : body \in [1..n -> ParsePieces] } :
            n \in 1..MaxStatements }

\* one statement around an expression of up to MaxTokens of these tokens, with
\* and without balanced parentheses
ParenTokens == {"1", "+", "(", ")"}

ParenWords ==
  UNION { [1..n -> ParenTokens] : n \in 1..MaxTokens } \cup {<<"1", "+", "2", ")">>}

ParenCases ==
  { [kind |-> "paren", statement |-> statement, words |-> words] :
      statement \in {"print", "assign"}, words \in ParenWords }

ParenSource(c) ==
  Text((IF c.statement = "print" THEN <<"print">> ELSE <<"x", ":=">>) \o c.words \o <<";">>)

\* statements laid out with a gap of whitespace or comment before each one:
\* an item is a plain statement or a for statement around a list of items
Plain(words) == [kind |-> "plain", words |-> words, body |-> <<>>]
Loop(body) == [kind |-> "for", words |-> <<>>, body |-> body]

Gaps ==
  { <<>>, <<" ">>, <<"\n", "\t">>, <<"/", "*", " ", "x", ";", " ", "*", "/">>,
    <<"/", "/", "x", ";", "\n">> }

RangeStatements ==
  { <<"print", "1", ";">>, <<"x", ":=", "1", "+", "2", ";">>, <<"var", "y", ":", "int", ";">>,
    <<"assert", "(", "1", "=", "1", ")", ";">>, <<"read", "x", ";">> }

Layout(shape, s, t) ==
  CASE shape = "flat" -> <<Plain(s), Plain(t)>>
    [] shape = "for" -> <<Plain(s), Loop(<<Plain(t), Plain(s)>>), Plain(t)>>
    [] shape = "nested" -> <<Loop(<<Plain(s), Loop(<<Plain(t)>>), Plain(s)>>)>>
    [] shape = "empty_for" -> <<Plain(s), Loop(<<>>), Plain(t)>>

\* the text of a list of items whose first gap starts at offset at, and the
\* positions the statements have in it: [pos |-> <<start, end>>, inner]
RECURSIVE RenderList(_, _, _)
RECURSIVE RenderItem(_, _, _)
RenderList(items, gap, at) ==
  IF items = <<>> THEN [text |-> <<>>, positions |-> <<>>]
  ELSE LET placed(one, start) ==
             LET more(rest) ==
                   [text |-> gap \o one.text \o rest.text,
                    positions |-> <<[pos |-> <<start, start + Len(one.text)>>,
                                     inner |-> one.inner]>> \o rest.positions]
             IN more(RenderList(Tail(items), gap, start + Len(one.text)))
       IN placed(RenderItem(Head(items), gap, at + Len(gap)), at + Len(gap))

RenderItem(item, gap, start) ==
  IF item.kind = "plain" THEN [text |-> Text(item.words), inner |-> <<>>]
  ELSE LET head == Text(<<"for", "x", "in", "0", "..", "1", "do">>) \o Sp
           around(body) ==
             [text |-> head \o body.text \o gap \o Text(<<"end", "for", ";">>),
              inner |-> body.positions]
       IN around(RenderList(item.body, gap, start + Len(head)))

RangeCases ==
  { [kind |-> "range", shape |-> shape, gap |-> gap, s |-> s, t |-> t] :
      shape \in {"flat", "for", "nested", "empty_for"}, gap \in Gaps,
      s \in RangeStatements, t \in RangeStatements }

Rendered(c) == RenderList(Layout(c.shape, c.s, c.t), c.gap, 0)

RangeSource(c) == Rendered(c).text

InitParseCase ==
  \/ input \in ParseCases /\ source = ParseSource(input)
  \/ input \in ParenCases /\ source = ParenSource(input)
  \/ input \in RangeCases /\ source = RangeSource(input)

InitParse ==
  /\ InitParseCase
  /\ build = "debug"
  /\ io = InitialIo
  /\ Fresh("parse")

NextParse == ParseProgram

SpecParse == InitParse /\ [][NextParse]_vars

-----------------------------------------------------------------------------
(* Properties of run_script (checked under Spec) *)

IsPrefix(s, t) == Len(s) <= Len(t) /\ SubSeq(t, 1, Len(s)) = s

\* lo, lo + 1, ..., hi
Ascending(lo, hi) == [k \in 1..(hi - lo + 1) |-> lo + k - 1]

RECURSIVE Flatten(_)
Flatten(seqs) == IF seqs = <<>> THEN <<>> ELSE Head(seqs) \o Flatten(Tail(seqs))

Printed(n) == Line(nat_to_string(n))

\* what the loop programs with the bodies "print" and "nested" are to write
LoopOutput(c) ==
  LET inner == IF c.body = "nested"
                 THEN [k \in 1..Len(Ascending(c.c, c.d)) |-> Printed(Ascending(c.c, c.d)[k])]
                 ELSE <<>>
  IN Flatten([k \in 1..Len(Ascending(c.a, c.b)) |-> <<Printed(Ascending(c.a, c.b)[k])>> \o inner])

BodyAssignsLoopVariable(tag) == tag \in {"assign_i", "nested_assign_i", "nested_assign_j"}

\* the loop variable written by the first offending statement of the body
FirstAssigned(body) ==
  LET first == IF BodyAssignsLoopVariable(body[1]) THEN body[1] ELSE body[2]
  IN IF first = "nested_assign_j" THEN <<"j">> ELSE <<"i">>

AssignToImmutable(name) == TypeError("AssignToImmutable", name, "", <<>>)

\* C1: a program whose for body assigns to the loop's own variable (first or
\* later in the body, or inside a nested for) fails type checking with
\* AssignToImmutable naming the variable.
C1_LoopVariableAssignmentRejected ==
  /\ (/\ input.kind = "mut"
      /\ \E k \in 1..Len(input.body) : BodyAssignsLoopVariable(input.body[k])
      /\ tresult.state # "none")
       => (tresult.state = "err" /\ tresult.err = AssignToImmutable(FirstAssigned(input.body)))
  /\ (input.kind = "loop" /\ input.body = "assign" /\ tresult.state # "none")
       => (tresult.state = "err" /\ tresult.err = AssignToImmutable(<<"v">>))

\* `var i : int; var j : int; for i in 0..1 do i := 5; end for;` has passed
\* the type checker
C1_AssignmentAccepted ==
  /\ input.kind = "mut"
  /\ input.body = <<"assign_i">>
  /\ tresult.state = "ok"

\* C4: for v in a..b with b < i32::MAX runs its body b - a + 1 times when
\* a <= b and not at all when a > b, in ascending order with v = a, ..., b; a
\* nested loop runs completely inside each outer iteration.
C4_LoopIterations ==
  (input.kind = "loop" /\ input.body \in {"print", "nested"} /\ input.b < MaxI32) =>
    /\ IsPrefix(io.output, LoopOutput(input))
    /\ outcome.state # "panic"
    /\ phase = "done" => (outcome.state = "ok" /\ io.output = LoopOutput(input))

C4_NestedLoopDone ==
  /\ input.kind = "loop"
  /\ input.body = "nested"
  /\ input.a = 0 /\ input.b = 1 /\ input.c = 1 /\ input.d = 2
  /\ phase = "done"
  /\ io.output = <<Printed(0), Printed(1), Printed(2), Printed(1), Printed(1), Printed(2)>>

\* C8: a variable declared without an initialiser holds its type's default
\* (0, "", false); reading it before any assignment yields the default and
\* does not fail.
C8_DefaultValues ==
  input.kind = "uninit" =>
    /\ outcome.state # "panic"
    /\ phase = "done" =>
         /\ outcome.state = "ok"
         /\ io.output = CASE input.use = "print_int" -> <<Printed(0)>>
                          [] input.use = "print_string" -> <<Line(<<>>)>>
                          [] input.use = "assert_bool" -> <<>>
                          [] input.use = "add_int" -> <<Printed(1)>>
                          [] input.use = "both" -> <<Printed(0), Line(<<>>)>>

\* `var a : int; print a;` has panicked without writing anything
C8_UninitialisedReadPanics ==
  /\ input.kind = "uninit"
  /\ input.use = "print_int"
  /\ outcome.state = "panic"
  /\ io.output = <<>>

LoopFinished == input.kind = "loop" /\ phase = "done" /\ outcome.state = "ok"

\* C9: after for v in a..b has finished, v is b when a <= b and keeps the
\* value it had before the loop when a > b; the loop itself changes no other
\* variable.
C9_LoopVariableAfterLoop ==
  LoopFinished =>
    /\ variables[<<"v">>].value = IF input.a <= input.b THEN IntV(input.b) ELSE IntV(9)
    /\ input.body # "nested" => variables[<<"w">>].value = NoValue

\* the body `print v; v := 7;` has left 7 in v after for v in 0..1
C9_BodyOverwrites ==
  /\ LoopFinished
  /\ input.body = "assign"
  /\ input.a = 0 /\ input.b = 1
  /\ variables[<<"v">>].value = IntV(7)

\* the scripts whose statements do not all parse and type check
ScriptFails(body) ==
  \/ \E k \in 1..Len(body) : body[k] \in ParseFailures \cup TypeFailures
  \/ body = <<"declare", "declare">>

ParseFailed == phase # "parse" /\ ~parsed.ok

\* C5: run_script returns Ok, or Err with a non-empty list; Err exactly when
\* parsing or type checking reports an error, and then nothing has been
\* executed: the Io capability has seen no write and no read_line.  Nothing is
\* executed before the whole program has been parsed and type checked.
C5_ErrWithoutExecution ==
  /\ outcome.state = "err" =>
       /\ outcome.errors # <<>>
       /\ io = InitialIo
       /\ ParseFailed \/ tresult.state = "err"
  /\ outcome.state = "ok" => (outcome.errors = <<>> /\ parsed.ok /\ tresult.state = "ok")
  /\ (ParseFailed \/ tresult.state = "err") => outcome.state = "err"
  /\ (io # InitialIo \/ phase = "execute") => (parsed.ok /\ tresult.state = "ok")
  /\ (input.kind = "script" /\ phase = "done")
       => (outcome.state = "err" <=> ScriptFails(input.body))

\* `var x : int := 1; print x; print z;` has been rejected and nothing was
\* printed
C5_TypeErrorNoOutput ==
  /\ input.kind = "script"
  /\ input.body = <<"print", "undeclared">>
  /\ outcome.state = "err"
  /\ outcome.errors = <<TypeError("UndeclaredIdentifier", <<"z">>, "", <<>>)>>
  /\ io = InitialIo

-----------------------------------------------------------------------------
(* Properties of parse_program (checked under SpecParse) *)

\* a parser error without its offset and without the lexer's reason
Diagnostic(kind, expected, was) == [kind |-> kind, expected |-> expected, was |-> was]

Diagnostics(errs) ==
  [k \in 1..Len(errs) |-> Diagnostic(errs[k].kind, errs[k].expected, errs[k].was)]

LexerDiagnostic == Diagnostic("LexerError", "", "")
StrayEnd == Diagnostic("UnexpectedToken", "EndOfFile", "End")

\* the kind of the first token of a piece
FirstToken(tag) ==
  CASE tag \in {"print", "no_semicolon"} -> "Print"
    [] tag \in {"for", "for_body", "no_semicolon_for"} -> "For"
    [] tag = "unknown" -> "Do"
    [] tag = "no_identifier" -> "Read"
    [] tag = "no_semicolon_declare" -> "Var"

Comments == {"open_comment", "bare_comment"}
Unfinished == {"no_semicolon", "no_semicolon_declare", "no_semicolon_for"}
Terminated == {"print", "for", "unknown", "no_identifier", "for_body"}

\* the error of a terminated piece that is not a statement
OwnError(tag) ==
  CASE tag \in {"unknown", "for_body"} -> Diagnostic("UnknownStatement", "", "Do")
    [] tag = "no_identifier" -> Diagnostic("UnexpectedToken", "Identifier", "Literal")

\* The errors of a program read piece by piece: each failed statement is
\* recorded, the pieces up to the next `;` are discarded, and statements are
\* read again after it; a piece that holds a `;` before an `end` leaves the
\* reader at the `end`, which is reported and ends the parse; the end of the
\* input or a comment that does not close ends it too.
RECURSIVE Recorded(_, _, _)
Recorded(body, k, recovering) ==
  IF k > Len(body) THEN <<>>
  ELSE IF recovering THEN
    CASE body[k] \in {"print", "unknown", "no_identifier"} -> Recorded(body, k + 1, FALSE)
      [] body[k] \in {"for", "for_body", "no_semicolon_for"} -> <<StrayEnd>>
      [] body[k] \in {"no_semicolon", "no_semicolon_declare"} -> Recorded(body, k + 1, TRUE)
      [] body[k] \in Comments -> <<>>
  ELSE
    CASE body[k] \in {"print", "for"} -> Recorded(body, k + 1, FALSE)
      [] body[k] \in {"unknown", "no_identifier"} ->
           <<OwnError(body[k])>> \o Recorded(body, k + 1, FALSE)
      [] body[k] = "for_body" -> <<OwnError(body[k]), StrayEnd>>
      [] body[k] \in Unfinished ->
           IF k = Len(body) THEN <<Diagnostic("UnexpectedToken", "Semicolon", "EndOfFile")>>
           ELSE IF body[k + 1] \in Comments THEN <<LexerDiagnostic>>
           ELSE <<Diagnostic("UnexpectedToken", "Semicolon", FirstToken(body[k + 1]))>>
                  \o Recorded(body, k + 1, TRUE)
      [] body[k] \in Comments -> <<LexerDiagnostic>>

InSourceOrder(errs) == \A k \in 1..(Len(errs) - 1) : errs[k].offset < errs[k + 1].offset

Parsed == input.kind = "parse" /\ phase # "parse"

\* one error for each piece that is not a statement
RECURSIVE OwnErrors(_)
OwnErrors(body) ==
  IF body = <<>> THEN <<>>
  ELSE IF Head(body) \in {"print", "for"} THEN OwnErrors(Tail(body))
  ELSE <<OwnError(Head(body))>> \o OwnErrors(Tail(body))

AllIn(body, pieces) == \A k \in 1..Len(body) : body[k] \in pieces

Reasons(errs) == [k \in 1..Len(errs) |-> errs[k].lexer]

\* the error at which a parse stops for good
StopError(tag) ==
  IF tag \in Comments THEN LexerDiagnostic
  ELSE Diagnostic("UnexpectedToken", "Semicolon", "EndOfFile")

\* C7: when recovery meets the end of the file or a lexer error before a `;`,
\* the result is the errors recorded so far and nothing more; a missing `;`
\* after the final statement gives exactly UnexpectedToken{Semicolon,
\* EndOfFile}, a comment that is never closed exactly
\* LexerError(UnterminatedComment).
C7_StopsWithoutFurtherError ==
  LET n == Len(input.body)
      before == SubSeq(input.body, 1, n - 1)
      last == input.body[n]
  IN (Parsed /\ AllIn(before, Terminated \ {"for_body"}) /\ last \in Unfinished \cup Comments) =>
       /\ ~parsed.ok
       /\ Diagnostics(parsed.errs) = OwnErrors(before) \o <<StopError(last)>>
       /\ Reasons(parsed.errs) =
            [k \in 1..Len(parsed.errs) |->
               IF k = Len(parsed.errs) /\ last \in Comments THEN "UnterminatedComment" ELSE ""]

\* `print 1 ; /*` has given LexerError(CharStreamError(EndOfFile))
C7_CommentOpenedAtEnd ==
  /\ Parsed
  /\ input.body = <<"print", "bare_comment">>
  /\ parsed.errs = <<LexerError("CharStreamError", 12)>>

-----------------------------------------------------------------------------
(* Programs for type_check.  Statements with an argument:                   *)
(*   var i : int ; var s : string ; var b : bool ; STATEMENT                *)
(* with the statement at the top level or in the body of for i in 0 .. 1    *)

ArgOperands ==
  {"i", "s", "b", "one", "text", "sum", "cat", "eq", "lt", "not", "and"}

OperandWords(operand) ==
  CASE operand = "i" -> <<"i">>
    [] operand = "s" -> <<"s">>
    [] operand = "b" -> <<"b">>
    [] operand = "one" -> <<"1">>
    [] operand = "text" -> <<"\"a\"">>
    [] operand = "sum" -> <<"i", "+", "1">>
    [] operand = "cat" -> <<"s", "+", "s">>
    [] operand = "eq" -> <<"i", "=", "1">>
    [] operand = "lt" -> <<"s", "<", "s">>
    [] operand = "not" -> <<"!", "b">>
    [] operand = "and" -> <<"b", "&", "b">>

\* the documented type of an operand
OperandType(operand) ==
  CASE operand \in {"i", "one", "sum"} -> "IntType"
    [] operand \in {"s", "text", "cat"} -> "StringType"
    [] OTHER -> "BoolType"

ArgWords(c) ==
  CASE c.stmt = "print" -> <<"print">> \o OperandWords(c.operand) \o <<";">>
    [] c.stmt = "read" -> <<"read">> \o OperandWords(c.operand) \o <<";">>
    [] c.stmt = "assert" -> <<"assert", "(">> \o OperandWords(c.operand) \o <<")", ";">>

InFor(variable, words) ==
  <<"for", variable, "in", "0", "..", "1", "do">> \o words \o <<"end", "for", ";">>

ArgSource(c) ==
  Text(<<"var", "i", ":", "int", ";", "var", "s", ":", "string", ";", "var", "b", ":", "bool", ";">>
       \o IF c.place = "for" THEN InFor("i", ArgWords(c)) ELSE ArgWords(c))

ArgCases ==
  { [kind |-> "arg", stmt |-> stmt, operand |-> operand, place |-> place] :
      stmt \in {"print", "assert"}, operand \in ArgOperands, place \in {"top", "for"} }
    \cup { [kind |-> "arg", stmt |-> "read", operand |-> operand, place |-> place] :
             operand \in {"i", "s", "b"}, place \in {"top", "for"} }

-----------------------------------------------------------------------------
(* Declarations:                                                            *)
(*   var x : int ; var i : int ; var j : int ;                              *)
(*   for i in 0 .. 1 do var k : int ; end for ;                             *)
(* followed by the declaration var NAME : TYPE [:= INIT] ; at the top       *)
(* level, in for i in 0 .. 1 do var m : int ; ... end for ; or in a for     *)
(* over j nested in that body                                               *)

DeclNames == {"x", "i", "k", "y", "m"}
TypeWords == {"int", "string", "bool"}
Initialisers == {"none", "one", "text", "eq"}

TypeNamed(word) ==
  CASE word = "int" -> "IntType"
    [] word = "string" -> "StringType"
    [] word = "bool" -> "BoolType"

DeclWords(c) ==
  <<"var", c.name, ":", c.type>>
    \o (IF c.init = "none" THEN <<>> ELSE <<":=">> \o OperandWords(c.init))
    \o <<";">>

DeclPrelude ==
  <<"var", "x", ":", "int", ";", "var", "i", ":", "int", ";", "var", "j", ":", "int", ";">>
    \o InFor("i", <<"var", "k", ":", "int", ";">>)

DeclSource(c) ==
  Text(DeclPrelude
       \o CASE c.ctx = "top" -> DeclWords(c)
            [] c.ctx = "for" -> InFor("i", <<"var", "m", ":", "int", ";">> \o DeclWords(c))
            [] c.ctx = "nested" ->
                 InFor("i", <<"var", "m", ":", "int", ";">> \o InFor("j", DeclWords(c))))

DeclCases ==
  { [kind |-> "decl", ctx |-> ctx, name |-> name, type |-> type, init |-> init] :
      ctx \in {"top", "for", "nested"}, name \in DeclNames, type \in TypeWords,
      init \in Initialisers }

-----------------------------------------------------------------------------
(* Uses of the name z:  var x : int ; var i : int ;  followed by statements *)
(* that use z, at the top level or in the body of for i in 0 .. 1           *)

DeclaredUses == {"declared", "declared_in_for"}

UndeclaredUses ==
  {"assign_target", "read_target", "for_variable", "print", "operand", "left_operand",
   "unary", "assign_value", "for_from", "for_to", "own_initialiser",
   "own_initialiser_sum", "after_for", "before_declaration", "sibling_for"}

Over(variable, from, to, words) ==
  <<"for", variable, "in", from, "..", to, "do">> \o words \o <<"end", "for", ";">>

UseWords(use) ==
  CASE use = "declared" -> <<"var", "z", ":", "int", ";", "print", "z", ";">>
    [] use = "declared_in_for" ->
         InFor("x", <<"var", "z", ":", "int", ";", "print", "z", "+", "x", ";">>)
    [] use = "assign_target" -> <<"z", ":=", "1", ";">>
    [] use = "read_target" -> <<"read", "z", ";">>
    [] use = "for_variable" -> InFor("z", <<"print", "1", ";">>)
    [] use = "print" -> <<"print", "z", ";">>
    [] use = "operand" -> <<"print", "1", "+", "z", ";">>
    [] use = "left_operand" -> <<"print", "z", "+", "1", ";">>
    [] use = "unary" -> <<"assert", "(", "!", "z", ")", ";">>
    [] use = "assign_value" -> <<"x", ":=", "z", ";">>
    [] use = "for_from" -> Over("x", "z", "1", <<"print", "1", ";">>)
    [] use = "for_to" -> Over("x", "0", "z", <<"print", "1", ";">>)
    [] use = "own_initialiser" -> <<"var", "z", ":", "int", ":=", "z", ";">>
    [] use = "own_initialiser_sum" -> <<"var", "z", ":", "int", ":=", "z", "+", "1", ";">>
    [] use = "after_for" -> InFor("x", <<"var", "z", ":", "int", ";">>) \o <<"print", "z", ";">>
    [] use = "before_declaration" -> <<"print", "z", ";", "var", "z", ":", "int", ";">>
    [] use = "sibling_for" ->
         InFor("x", <<"var", "z", ":", "int", ";">>) \o InFor("x", <<"print", "z", ";">>)

UseSource(c) ==
  Text(<<"var", "x", ":", "int", ";", "var", "i", ":", "int", ";">>
       \o IF c.place = "for" THEN InFor("i", UseWords(c.use)) ELSE UseWords(c.use))

UseCases ==
  { [kind |-> "use", use |-> use, place |-> place] :
      use \in DeclaredUses \cup UndeclaredUses, place \in {"top", "for"} }

InitCheckCase ==
  \/ input \in ArgCases /\ source = ArgSource(input)
  \/ input \in DeclCases /\ source = DeclSource(input)
  \/ input \in UseCases /\ source = UseSource(input)

InitCheck ==
  /\ InitCheckCase
  /\ build = "debug"
  /\ io = InitialIo
  /\ Fresh("parse")

NextCheck ==
  \/ ParseProgram
  \/ CheckDeclare \/ CheckAssign \/ CheckPrint \/ CheckRead \/ CheckAssert
  \/ CheckFor \/ CheckEndFor \/ CheckDone

SpecCheck == InitCheck /\ [][NextCheck]_vars

-----------------------------------------------------------------------------
(* Properties of type_check (checked under SpecCheck) *)

ArgumentError(kind, type) == TypeError(kind, <<>>, "", <<type>>)

\* the error documented for a statement with an argument of a type
DocArgumentError(stmt, type) ==
  CASE stmt = "print" /\ type = "BoolType" -> ArgumentError("PrintArgumentError", type)
    [] stmt = "read" /\ type = "BoolType" -> ArgumentError("ReadArgumentError", type)
    [] stmt = "assert" /\ type # "BoolType" -> ArgumentError("AssertArgumentError", type)
    [] OTHER -> NoTypeError

TypeChecked == phase # "parse" /\ parsed.ok /\ tresult.state # "none"

\* C11: print takes int or string and gives PrintArgumentError for bool, read
\* takes a variable of type int or string and gives ReadArgumentError for
\* bool, assert takes bool and gives AssertArgumentError for anything else.
C11_ArgumentTypes ==
  input.kind = "arg" =>
    /\ phase # "parse" => parsed.ok
    /\ TypeChecked =>
         /\ tresult.err = DocArgumentError(input.stmt, OperandType(input.operand))
         /\ tresult.state = "ok" <=> tresult.err = NoTypeError

\* `print i = 1 ;` has been rejected with PrintArgumentError(bool)
C11_PrintBoolRejected ==
  /\ input.kind = "arg"
  /\ input.stmt = "print" /\ input.operand = "eq" /\ input.place = "top"
  /\ tresult.state = "err"
  /\ tresult.err = ArgumentError("PrintArgumentError", "BoolType")

\* the (scope, name, type) of every symbol of a scope tree
Declared(t) ==
  UNION { { <<scope, name, t.scopes[scope].symbols[name].type_of>> :
              name \in DOMAIN t.scopes[scope].symbols } : scope \in DOMAIN t.scopes }

\* the scope a declaration of the family is made in
DeclScope(ctx) == CASE ctx = "top" -> 0 [] ctx = "for" -> 2 [] ctx = "nested" -> 3

\* the names visible where the declaration stands
DeclBound(c) == c.name \in {"x", "i"} \/ (c.name = "m" /\ c.ctx # "top")

\* the symbols the statements before the declaration define
DeclBefore(c) ==
  { <<0, <<"x">>, "IntType">>, <<0, <<"i">>, "IntType">>, <<0, <<"j">>, "IntType">>,
    <<1, <<"k">>, "IntType">> }
    \cup (IF c.ctx = "top" THEN {} ELSE { <<2, <<"m">>, "IntType">> })

DocDeclareError(c) ==
  IF DeclBound(c) THEN TypeError("RedeclaredIdentifier", <<c.name>>, "", <<>>)
  ELSE IF c.init # "none" /\ OperandType(c.init) # TypeNamed(c.type)
    THEN TypeError("IncompatibleTypes", <<>>, "", <<TypeNamed(c.type), OperandType(c.init)>>)
  ELSE NoTypeError

\* C12: a declaration of a name bound in the current or an ancestor scope
\* fails with RedeclaredIdentifier, one whose initialiser has another type
\* with IncompatibleTypes, and neither adds a symbol; otherwise exactly one
\* mutable symbol of the declared type is added to the current scope.  A name
\* bound only in a for scope that has ended can be declared.
C12_Declarations ==
  input.kind = "decl" =>
    /\ phase # "parse" => parsed.ok
    /\ TypeChecked =>
         /\ tresult.err = DocDeclareError(input)
         /\ tresult.state = "ok" <=> tresult.err = NoTypeError
         /\ tresult.state = "err" => Declared(tree) = DeclBefore(input)
         /\ tresult.state = "ok" =>
              /\ Declared(tree) =
                   DeclBefore(input) \cup { <<DeclScope(input.ctx), <<input.name>>, TypeNamed(input.type)>> }
              /\ <<DeclScope(input.ctx), <<input.name>>, TypeNamed(input.type)>> \notin DeclBefore(input)
              /\ tree.scopes[DeclScope(input.ctx)].symbols[<<input.name>>].is_mutable

\* `var k : string := "a" ;` after the for whose body declared k has been
\* accepted and k is a symbol of the global scope
C12_EndedScopeNameAccepted ==
  /\ input.kind = "decl"
  /\ input.ctx = "top" /\ input.name = "k" /\ input.type = "string" /\ input.init = "text"
  /\ tresult.state = "ok"
  /\ <<0, <<"k">>, "StringType">> \in Declared(tree)

UndeclaredIdentifier(name) == TypeError("UndeclaredIdentifier", name, "", <<>>)

\* C13: a use of a name that no earlier statement has declared in the current
\* or an enclosing scope (assignment target, read target, for variable, or
\* operand of an expression; also in the name's own initialiser and after the
\* for whose body declared it) is rejected with UndeclaredIdentifier.
C13_UndeclaredUses ==
  input.kind = "use" =>
    /\ phase # "parse" => parsed.ok
    /\ TypeChecked =>
         IF input.use \in DeclaredUses THEN tresult.state = "ok"
         ELSE tresult.state = "err" /\ tresult.err = UndeclaredIdentifier(<<"z">>)

\* `for x in 0 .. 1 do var z : int ; end for ; print z ;` has been rejected
C13_UseAfterForRejected ==
  /\ input.kind = "use"
  /\ input.use = "after_for" /\ input.place = "top"
  /\ tresult.state = "err"
  /\ tresult.err = UndeclaredIdentifier(<<"z">>)
  /\ <<1, <<"z">>, "IntType">> \in Declared(tree)

-----------------------------------------------------------------------------
(* Properties of the interpreter's I/O (checked under Spec) *)

\* what x and s display as and what the Io value holds before any statement
\* of the body has run
IoStart == [x |-> <<"-", "3">>, s |-> <<"a">>, io |-> InitialIo]

\* one statement: a print adds one chunk, a read takes one line
IoStep(prev, tag) ==
  CASE tag = "print_x" -> [prev EXCEPT !.io.output = Append(@, Line(prev.x))]
    [] tag = "print_s" -> [prev EXCEPT !.io.output = Append(@, Line(prev.s))]
    [] tag = "read_x" -> [prev EXCEPT !.x = Head(prev.io.input), !.io.input = Tail(@)]
    [] tag = "read_s" -> [prev EXCEPT !.s = Head(prev.io.input), !.io.input = Tail(@)]

RECURSIVE IoAfter(_, _)
IoAfter(body, k) == IF k = 0 THEN IoStart ELSE IoStep(IoAfter(body, k - 1), body[k])

Reads(body, k) == Cardinality({ n \in 1..k : body[n] \in {"read_x", "read_s"} })

\* the statements that run: all of them, or those before the read that finds
\* no line left
Runs(body) ==
  IF Reads(body, Len(body)) <= Len(InputLines) THEN Len(body)
  ELSE (CHOOSE k \in 1..Len(body) :
          body[k] \in {"read_x", "read_s"} /\ Reads(body, k) = Len(InputLines) + 1) - 1

\* C14: each executed print is one write of the display form of the value,
\* with nothing appended, and writes and read_line calls happen in the order
\* in which their statements execute: after every statement the Io value holds
\* exactly the chunks and the lines that the statements so far leave.
C14_PrintsInOrder ==
  input.kind = "io" =>
    /\ phase # "parse" => parsed.ok
    /\ (phase = "execute" /\ outcome.state = "none")
         => (Top(xstack).pc > 2 => io = IoAfter(input.body, Top(xstack).pc - 3).io)
    /\ phase = "done" =>
         /\ io = IoAfter(input.body, Runs(input.body)).io
         /\ outcome.state = IF Runs(input.body) = Len(input.body) THEN "ok" ELSE "panic"

\* `print x ; print s ;` has written the two chunks -3 and a
C14_TwoPrintsTwoChunks ==
  /\ input.kind = "io"
  /\ input.body = <<"print_x", "print_s">>
  /\ phase = "done"
  /\ io.output = <<Line(<<"-", "3">>), Line(<<"a">>)>>

-----------------------------------------------------------------------------
(* Properties of integer division (checked under Spec) *)

\* q is a / b rounded towards zero: the remainder a - q * b is smaller in
\* size than b and is zero or has the sign of a
Truncated(a, b, q) ==
  LET r == a - q * b IN
  /\ r = 0 \/ ((r > 0) <=> (a > 0))
  /\ IF b > 0 THEN r < b /\ -b < r ELSE b < r /\ (b = MinI32 \/ r < -b)

DivDone == input.kind = "div" /\ phase = "done"

DivExamples ==
  /\ (input.a = 10 /\ input.b = 3) => io.output = <<Line(<<"3">>)>>
  /\ (input.a = 100 /\ input.b = 101) => io.output = <<Line(<<"0">>)>>
  /\ (input.a = -7 /\ input.b = 2) => io.output = <<Line(<<"-", "3">>)>>

\* C15 as documented: for every pair of 32-bit operands with a non-zero
\* divisor the quotient is the exact quotient rounded towards zero.
C15_DivisionTruncates ==
  (DivDone /\ input.b # 0) =>
    /\ outcome.state = "ok"
    /\ Truncated(input.a, input.b, variables[<<"q">>].value.v)
    /\ DivExamples

\* C15: for every pair of 32-bit operands with a non-zero divisor other than
\* -2147483648 / -1 the quotient is the exact quotient rounded towards zero;
\* -2147483648 / -1, whose quotient is not a 32-bit integer, panics.
C15_DivisionTruncatesInRange ==
  (DivDone /\ input.b # 0) =>
    IF input.a = MinI32 /\ input.b = -1
      THEN outcome.state = "panic" /\ io.output = <<>>
      ELSE /\ outcome.state = "ok"
           /\ Truncated(input.a, input.b, variables[<<"q">>].value.v)
           /\ DivExamples

\* `var q : int := ( 0 - 7 ) / 2 ; print q ;` has printed -3
C15_NegativeDividend ==
  /\ DivDone
  /\ input.a = -7 /\ input.b = 2
  /\ variables[<<"q">>].value = IntV(-3)
  /\ io.output = <<Line(<<"-", "3">>)>>


-----------------------------------------------------------------------------
(* The lexer alone: lex() of parsing/lexer_test_util.rs, which calls next() *)
(* on a BufferedLexer until the lexer reports the end, over generated words,*)
(* block comments and string literals.                                      *)

\* every sequence over chars of length lo..hi
RECURSIVE Strings(_, _)
Strings(chars, n) ==
  IF n = 0 THEN {<<>>}
  ELSE { Append(s, c) : s \in Strings(chars, n - 1), c \in chars }
StringsUpTo(chars, lo, hi) == UNION { Strings(chars, n) : n \in lo..hi }

ReservedWords ==
  { <<"p", "r", "i", "n", "t">>, <<"r", "e", "a", "d">>, <<"v", "a", "r">>,
    <<"a", "s", "s", "e", "r", "t">>, <<"f", "o", "r">>, <<"i", "n">>, <<"d", "o">>,
    <<"e", "n", "d">>, <<"i", "n", "t">>, <<"s", "t", "r", "i", "n", "g">>,
    <<"b", "o", "o", "l">> }

WordChars == {"i", "n", "Z", "1", "_", "[", "^", "bq"}
WordSources == StringsUpTo(WordChars, 1, MaxChars) \cup ReservedWords

CommentChars == {"/", "*", "a"}
\* the comment opener, a generated body, and the nested-looking examples
CommentSources ==
  { <<"/", "*">> \o body : body \in StringsUpTo(CommentChars, 0, MaxChars) }
    \cup { <<"/", "*", "/", "*", "*", "/", "a", "*", "/">>,
           <<"/", "*", " ", "*", "/", " ", "1", " ", "/", "*", "*", "/", ";">> }

StringChars == {"\"", "\\", "n", "r", "t", "x"}
StringSources == { <<"\"">> \o body : body \in StringsUpTo(StringChars, 0, MaxChars) }

LexCases == WordSources \cup CommentSources \cup StringSources

InitLex ==
  /\ input \in LexCases
  /\ source = input
  /\ build = "debug"
  /\ io = [input |-> <<>>, output |-> <<>>]
  /\ phase = "lex"
  /\ parsed = [ok |-> FALSE, val |-> <<>>, errs |-> <<>>]
  /\ program = <<>>
  /\ tree = ScopeTree_new
  /\ tstack = <<>>
  /\ tresult = NoResult
  /\ variables = EmptyMap
  /\ xstack = <<>>
  /\ lexer = BufferedLexer_new(source)
  /\ returned = <<>>
  /\ decoded = NoPosition
  /\ outcome = NoOutcome

\* what one call on the lexer returned
Call(call, r) ==
  [call |-> call, ok |-> r.ok, token |-> r.token, offset |-> r.offset, err |-> r.err]

\* one turn of the loop of lex(): next()?, the token pushed
Lex ==
  /\ phase = "lex"
  /\ ~lexer_reached_end(lexer)
  /\ \E r \in {lexer_next(lexer)} :
       /\ lexer' = r.lx
       /\ returned' = Append(returned, Call("next", r))
       /\ phase' = IF r.ok THEN "lex" ELSE "done"
       /\ outcome' = IF r.ok THEN outcome
                     ELSE Returned("err", <<LexerError(r.err, r.offset)>>)
  /\ UNCHANGED <<decoded, input, build, source, parsed, program, tree, tstack, tresult, variables,
                 xstack, io>>

\* the loop of lex() ends: Ok(tokens)
LexReturn ==
  /\ phase = "lex"
  /\ lexer_reached_end(lexer)
  /\ phase' = "done"
  /\ outcome' = Returned("ok", <<>>)
  /\ UNCHANGED <<lexer, returned, decoded, input, build, source, parsed, program, tree, tstack,
                 tresult, variables, xstack, io>>

NextLex == Lex \/ LexReturn

SpecLex == InitLex /\ [][NextLex]_vars

-----------------------------------------------------------------------------
(* Identifiers *)

Between(ch, lo, hi) == CharCode(ch) >= CharCode(lo) /\ CharCode(ch) <= CharCode(hi)

\* the documented identifier names: [A-Za-z][A-Za-z0-9_]*, no reserved word
DocIdentifier(word) ==
  /\ word # <<>>
  /\ Between(word[1], "A", "Z") \/ Between(word[1], "a", "z")
  /\ \A i \in DOMAIN word :
       \/ Between(word[i], "A", "Z") \/ Between(word[i], "a", "z")
       \/ Between(word[i], "0", "9") \/ word[i] = "_"
  /\ word \notin ReservedWords

\* C16: every Identifier(name) the lexer returns has a name matching
\* [A-Za-z][A-Za-z0-9_]* that is not a reserved word; `_`, `[`, `^` or a
\* backtick at the start of or inside a word never ends up in an identifier
C16_IdentifiersWellFormed ==
  \A i \in DOMAIN returned :
    returned[i].token.kind = "Identifier" => DocIdentifier(returned[i].token.val)

\* the part of C16 the lexer keeps: a reserved word is never an Identifier, and
\* a word of ASCII letters, digits and `_` that starts with a letter is one
C16_ReservedWordsAndPlainNames ==
  \A i \in DOMAIN returned :
    LET name == returned[i].token.val IN
    /\ returned[i].token.kind = "Identifier" => name \notin ReservedWords
    /\ phase = "done" /\ DocIdentifier(input) =>
         returned = <<Call("next", LexOk(TokVal("Identifier", input), 0, Len(input)))>>

\* the word `_[` has been lexed to Identifier("_[")
C16_UnderscoreBracketIdentifier ==
  /\ source = <<"_", "[">>
  /\ phase = "done"
  /\ outcome.state = "ok"
  /\ returned = <<[call |-> "next", ok |-> TRUE, token |-> TokVal("Identifier", <<"_", "[">>),
                   offset |-> 0, err |-> ""]>>

-----------------------------------------------------------------------------
(* Block comments *)

\* where the documented comment ends: the offset after the first `*/` that
\* follows the opening `/*` at offset 0, or -1 when there is none
DocCommentEnd(chars) ==
  LET closes == { k \in 3..(Len(chars) - 1) : chars[k] = "*" /\ chars[k + 1] = "/" }
  IN IF closes = {} THEN -1
     ELSE (CHOOSE k \in closes : \A other \in closes : k <= other) + 1

\* what the documentation gives for the first next() on a source that opens
\* with a block comment
DocCommentResult(first) ==
  IF DocCommentEnd(source) < 0 THEN ~first.ok /\ first.err = "UnterminatedComment"
  ELSE first = Call("next", next_token(source, DocCommentEnd(source)))

\* C17: a block comment ends at the first `*/` after its opener (not sharing
\* the opener's `*`, no nesting) and lexing goes on with the next token; when
\* the input ends first, also right after `/*`, the error is UnterminatedComment
C17_BlockComments ==
  input \in CommentSources /\ returned # <<>> => DocCommentResult(returned[1])

\* the same with the input that ends right after `/*` left out
C17_BlockCommentsWithBody ==
  input \in CommentSources /\ Len(source) > 2 /\ returned # <<>> =>
    DocCommentResult(returned[1])

\* `/*` alone has been lexed: CharStreamError(EndOfFile), not UnterminatedComment
C17_OpenerAtEnd ==
  /\ source = <<"/", "*">>
  /\ phase = "done"
  /\ returned = <<Call("next", LexErr("CharStreamError", 2))>>

-----------------------------------------------------------------------------
(* String literals *)

DocEscapes == [e \in {"\\", "\"", "n", "r", "t"} |->
                 CASE e = "\\" -> "\\" [] e = "\"" -> "\"" [] e = "n" -> "\n"
                   [] e = "r" -> "\r" [] e = "t" -> "\t"]

\* the documented reading of a string literal whose opening quote is chars[1],
\* from index i on: the contents, or the error
RECURSIVE DocString(_, _, _)
DocString(chars, i, acc) ==
  IF i > Len(chars) THEN [ok |-> FALSE, err |-> "UnterminatedStringLiteral", contents |-> <<>>]
  ELSE IF chars[i] = "\"" THEN [ok |-> TRUE, err |-> "", contents |-> acc]
  ELSE IF chars[i] = "\\" THEN
    IF i = Len(chars) THEN
      [ok |-> FALSE, err |-> "UnterminatedStringLiteral", contents |-> <<>>]
    ELSE IF chars[i + 1] \in DOMAIN DocEscapes THEN
      DocString(chars, i + 2, Append(acc, DocEscapes[chars[i + 1]]))
    ELSE [ok |-> FALSE, err |-> "UnknownEscapeCode", contents |-> <<>>]
  ELSE DocString(chars, i + 1, Append(acc, chars[i]))

DocStringResult(first, doc) ==
  /\ first.ok = doc.ok
  /\ first.err = doc.err
  /\ doc.ok => first.token = TokVal("Literal", StringLiteral(doc.contents)) /\ first.offset = 0

\* C18: a string literal the input ends in, also right after a backslash, gives
\* UnterminatedStringLiteral; the escapes \\ \" \n \r \t stand for backslash,
\* quote, LF, CR, TAB; any other escape gives UnknownEscapeCode
C18_StringLiterals ==
  input \in StringSources /\ returned # <<>> =>
    DocStringResult(returned[1], DocString(source, 2, <<>>))

\* the same with the sources that end right after an unescaped backslash left out
C18_StringLiteralsNoDanglingBackslash ==
  input \in StringSources /\ returned # <<>>
    /\ returned[1].err # "CharStreamError" =>
    DocStringResult(returned[1], DocString(source, 2, <<>>))

\* the source `"n\` has been lexed: CharStreamError(EndOfFile)
C18_BackslashAtEnd ==
  /\ source = <<"\"", "n", "\\">>
  /\ phase = "done"
  /\ returned = <<Call("next", LexErr("CharStreamError", 3))>>

-----------------------------------------------------------------------------
(* Closing parentheses without an opening one *)

\* some `)` of the token sequence has no unmatched `(` before it
RECURSIVE Unmatched(_, _)
Unmatched(words, depth) ==
  IF words = <<>> THEN FALSE
  ELSE IF Head(words) = ")" THEN depth = 0 \/ Unmatched(Tail(words), depth - 1)
  ELSE IF Head(words) = "(" THEN Unmatched(Tail(words), depth + 1)
  ELSE Unmatched(Tail(words), depth)

\* C19: a statement whose expression has a `)` with no matching `(` before it
\* is rejected with a parser error, never parsed as if the `)` were absent
C19_StrayRParenRejected ==
  input.kind = "paren" /\ Unmatched(input.words, 0) /\ phase # "parse" => ~parsed.ok

\* `print 1 + 2 ) ;` has been parsed to the program print 1 + 2
C19_StrayRParenDropped ==
  /\ input = [kind |-> "paren", statement |-> "print", words |-> <<"1", "+", "2", ")">>]
  /\ phase # "parse"
  /\ parsed.ok
  /\ Len(program) = 1
  /\ program[1].statement =
       PrintStmt(BinaryOp("Add", Literal(IntLiteral(1)), Literal(IntLiteral(2))))

-----------------------------------------------------------------------------
(* The token buffer alone: peek, advance and next called on a BufferedLexer *)
(* in the ways the parser calls them.  The parser calls lexer.advance()     *)
(* only in the arm of a peek that returned a token (expect_eq), and calls   *)
(* peek and next anywhere, also after a call that failed (try_recover).     *)

BufferWords == {"x", "1", ":=", ".", ";"}

BufferCases ==
  UNION { { [kind |-> "buffer", words |-> words] : words \in [1..n -> BufferWords] } :
            n \in 1..MaxLexemes }

InitBuffer ==
  /\ input \in BufferCases
  /\ source = Text(input.words)
  /\ build = "debug"
  /\ io = [input |-> <<>>, output |-> <<>>]
  /\ phase = "calls"
  /\ parsed = [ok |-> FALSE, val |-> <<>>, errs |-> <<>>]
  /\ program = <<>>
  /\ tree = ScopeTree_new
  /\ tstack = <<>>
  /\ tresult = NoResult
  /\ variables = EmptyMap
  /\ xstack = <<>>
  /\ lexer = BufferedLexer_new(source)
  /\ returned = <<>>
  /\ decoded = NoPosition
  /\ outcome = NoOutcome

\* a call, what it returned, and where it left the character stream and the buffer
Made(call, r, lx) ==
  [call |-> call, ok |-> r.ok, token |-> r.token, offset |-> r.offset, err |-> r.err,
   stream |-> lx.offset, buffered |-> lx.token.some]

Calling == phase = "calls" /\ Len(returned) < MaxCalls

Idle == UNCHANGED <<decoded, input, build, source, phase, parsed, program, tree, tstack, tresult,
                    variables, xstack, io, outcome>>

LexerPeek ==
  /\ Calling
  /\ \E r \in {lexer_peek(lexer)} :
       /\ lexer' = r.lx
       /\ returned' = Append(returned, Made("peek", r, r.lx))
  /\ Idle

\* advance(), which returns nothing, after a peek that buffered a token
LexerAdvance ==
  /\ Calling
  /\ lexer.token.some
  /\ \E lx \in {lexer_advance(lexer)} :
       /\ lexer' = lx
       /\ returned' = Append(returned, Made("advance", LexOk(Tok("None"), 0, 0), lx))
  /\ Idle

LexerNext ==
  /\ Calling
  /\ \E r \in {lexer_next(lexer)} :
       /\ lexer' = r.lx
       /\ returned' = Append(returned, Made("next", r, r.lx))
  /\ Idle

NextBuffer == LexerPeek \/ LexerAdvance \/ LexerNext

SpecBuffer == InitBuffer /\ [][NextBuffer]_vars

\* the k-th result of the lexer without a buffer: next_token called k times,
\* each call starting where the one before left the character stream
RECURSIVE Nth(_, _, _)
Nth(chars, pos, k) ==
  IF k <= 1 THEN next_token(chars, pos) ELSE Nth(chars, next_token(chars, pos).pos, k - 1)

SameResult(made, r) ==
  /\ made.ok = r.ok
  /\ made.err = r.err
  /\ r.ok => made.token = r.token /\ made.offset = r.offset

\* how many of the first n calls took something from the source, when a peek
\* takes nothing unless takes_on_error says that a failed one does
RECURSIVE Taken(_, _, _)
Taken(log, n, takes_on_error) ==
  IF n = 0 THEN 0
  ELSE Taken(log, n - 1, takes_on_error) +
       (IF log[n].call = "peek" /\ (log[n].ok \/ ~takes_on_error) THEN 0 ELSE 1)

\* every peek and next returns the result that follows what was taken before it
InOrder(takes_on_error) ==
  \A i \in DOMAIN returned :
    returned[i].call \in {"peek", "next"} =>
      SameResult(returned[i], Nth(source, 0, Taken(returned, i - 1, takes_on_error) + 1))

\* a peek or an advance right after a peek leaves the character stream alone,
\* and the advance empties the buffer
StreamKept(also_failed) ==
  \A i \in DOMAIN returned :
    i > 1 /\ returned[i - 1].call = "peek" /\ (returned[i - 1].ok \/ also_failed) =>
      /\ returned[i].call \in {"peek", "advance"} => returned[i].stream = returned[i - 1].stream
      /\ returned[i].call = "advance" => ~returned[i].buffered
      /\ returned[i].call = "peek" => returned[i].buffered

\* C20: peek never consumes: consecutive peeks return the same token and
\* offset and the character stream does not move after the first; an advance
\* after a peek discards exactly that token; next is peek then advance; the
\* tokens come in source order, none skipped or duplicated, ending with EndOfFile
C20_PeekNeverConsumes == InOrder(FALSE) /\ StreamKept(TRUE)

\* C20 with a failed peek set apart: a peek that returned a token consumes
\* nothing; a peek (or next) that failed buffers nothing and leaves the
\* character stream where lexing failed, so the call after it reads on from there
C20_PeekedTokenNeverConsumed == InOrder(TRUE) /\ StreamKept(FALSE)

\* `x ;` after peek, peek, advance, next, next: x, x, `;` and EndOfFile returned
C20_PeekPeekAdvanceNext ==
  /\ source = <<"x", " ", ";">>
  /\ Len(returned) = 5
  /\ [i \in 1..5 |-> returned[i].call] = <<"peek", "peek", "advance", "next", "next">>
  /\ returned[1].token = TokVal("Identifier", <<"x">>)
  /\ returned[2].token = TokVal("Identifier", <<"x">>)
  /\ returned[4].token = Tok("Semicolon")
  /\ returned[5].token = Tok("EndOfFile")

\* `.` after two peeks: the first failed with the character stream moved past
\* the `.`, the second returned EndOfFile
C20_FailedPeekConsumed ==
  /\ source = <<".">>
  /\ Len(returned) = 2
  /\ returned[1] = [call |-> "peek", ok |-> FALSE, token |-> Tok("None"), offset |-> 1,
                    err |-> "CharStreamError", stream |-> 1, buffered |-> FALSE]
  /\ returned[2] = [call |-> "peek", ok |-> TRUE, token |-> Tok("EndOfFile"), offset |-> 1,
                    err |-> "", stream |-> 1, buffered |-> TRUE]

-----------------------------------------------------------------------------
(* Source positions of statements *)

\* the positions of a parsed statement list, for bodies inside their statement
RECURSIVE Positions(_)
Positions(statements) ==
  [i \in DOMAIN statements |->
     [pos |-> statements[i].source_position,
      inner |-> IF statements[i].statement.kind = "For"
                THEN Positions(statements[i].statement.run) ELSE <<>>]]

\* start < end for each, siblings disjoint and in order, bodies inside [lo, hi)
RECURSIVE Disjoint(_, _, _)
Disjoint(positions, lo, hi) ==
  \A i \in DOMAIN positions :
    /\ lo <= positions[i].pos[1]
    /\ positions[i].pos[1] < positions[i].pos[2]
    /\ positions[i].pos[2] <= hi
    /\ i > 1 => positions[i - 1].pos[2] <= positions[i].pos[1]
    /\ Disjoint(positions[i].inner, positions[i].pos[1], positions[i].pos[2])

\* C21: every parsed statement carries [start, end) with start the offset of
\* its first token and end the offset just after its terminating semicolon,
\* so start < end; siblings are disjoint and in source order, and the
\* statements of a for body lie inside the range of the for statement
C21_StatementRanges ==
  input.kind = "range" /\ phase # "parse" =>
    /\ parsed.ok
    /\ Positions(program) = Rendered(input).positions
    /\ Disjoint(Positions(program), 0, Len(source))

\* a commented program with a for statement in a for statement has been parsed
C21_NestedForRanges ==
  /\ input = [kind |-> "range", shape |-> "nested",
              gap |-> <<"/", "*", " ", "x", ";", " ", "*", "/">>,
              s |-> <<"print", "1", ";">>, t |-> <<"read", "x", ";">>]
  /\ phase # "parse"
  /\ parsed.ok
  /\ Len(program) = 1
  /\ Len(program[1].statement.run) = 3
  /\ program[1].source_position[1] = 8
  /\ program[1].statement.run[2].statement.run[1].source_position[1] > 8

-----------------------------------------------------------------------------
(* diagnostics/file_context.rs: FileContextSource and decode_offset *)

\* a line without the carriage return before its terminator
Trim(line, strip) ==
  IF strip /\ line # <<>> /\ line[Len(line)] = "\r" THEN SubSeq(line, 1, Len(line) - 1)
  ELSE line

\* str::lines(): the text split at line feeds, a carriage return before the
\* line feed dropped, no line for what follows a final line feed.  Whether a
\* carriage return that ends the unterminated last line is dropped depends on
\* the standard library the crate is built with (strip_last).
RECURSIVE str_lines(_, _, _, _)
str_lines(chars, i, line, strip_last) ==
  IF i > Len(chars) THEN (IF line = <<>> THEN <<>> ELSE <<Trim(line, strip_last)>>)
  ELSE IF chars[i] = "\n" THEN <<Trim(line, TRUE)>> \o str_lines(chars, i + 1, <<>>, strip_last)
  ELSE str_lines(chars, i + 1, Append(line, chars[i]), strip_last)

\* the scan of from_str: each line with the offset given to its start
RECURSIVE scan_lines(_, _)
scan_lines(lines, offs) ==
  IF lines = <<>> THEN <<>>
  ELSE <<[first |-> offs, content |-> Head(lines)]>>
         \o scan_lines(Tail(lines), offs + Len(Head(lines)) + 1)

FileContextSource_from_str(chars, strip_last) ==
  scan_lines(str_lines(chars, 1, <<>>, strip_last), 0)

SomePosition(offset, column, row) ==
  [some |-> TRUE, offset |-> offset, column |-> column, row |-> row]

\* the first row whose stored span holds the offset
decode_offset(lines, offset) ==
  LET holds(row) ==
        offset >= lines[row].first /\ offset <= lines[row].first + Len(lines[row].content)
      rows == { row \in DOMAIN lines : holds(row) }
      found(row) == SomePosition(offset, offset - lines[row].first + 1, row)
  IN IF rows = {} THEN NoPosition
     ELSE found(CHOOSE row \in rows : \A other \in rows : row <= other)

LineChars == {"a", "\n", "\r"}

DecodeCases ==
  { [kind |-> "decode", text |-> text, offset |-> offset, strip_last |-> strip_last] :
      text \in StringsUpTo(LineChars, 0, MaxChars), offset \in 0..(MaxChars + 1),
      strip_last \in BOOLEAN }

InitDecode ==
  /\ input \in DecodeCases
  /\ source = input.text
  /\ build = "debug"
  /\ io = [input |-> <<>>, output |-> <<>>]
  /\ phase = "decode"
  /\ parsed = [ok |-> FALSE, val |-> <<>>, errs |-> <<>>]
  /\ program = <<>>
  /\ tree = ScopeTree_new
  /\ tstack = <<>>
  /\ tresult = NoResult
  /\ variables = EmptyMap
  /\ xstack = <<>>
  /\ lexer = NoLexer
  /\ returned = <<>>
  /\ decoded = NoPosition
  /\ outcome = NoOutcome

\* FileContextSource::from_str(source).decode_offset(offset)
DecodeOffset ==
  /\ phase = "decode"
  /\ decoded' = decode_offset(FileContextSource_from_str(source, input.strip_last), input.offset)
  /\ phase' = "done"
  /\ UNCHANGED <<lexer, returned, input, build, source, parsed, program, tree, tstack, tresult,
                 variables, xstack, io, outcome>>

NextDecode == DecodeOffset

SpecDecode == InitDecode /\ [][NextDecode]_vars

\* the documented position of offset o: the row is 1 + the line feeds before
\* o, the column counts from the start of that line; none past the end
LineFeedsBefore(chars, o) == { i \in 1..o : chars[i] = "\n" }

DocPosition(chars, o) ==
  LET feeds == LineFeedsBefore(chars, o)
      start == IF feeds = {} THEN 0 ELSE CHOOSE i \in feeds : \A other \in feeds : other <= i
  IN IF o > Len(chars) THEN NoPosition
     ELSE SomePosition(o, o - start + 1, 1 + Cardinality(feeds))

\* C22: for every source and offset 0 <= o <= len(source), decode_offset(o) is
\* the row 1 + (line feeds before o) and the column o - (start of that line) + 1,
\* also for o = len(source) after a final line feed; not found only past the end
C22_DecodeOffset ==
  phase = "done" /\ input.kind = "decode" => decoded = DocPosition(source, input.offset)

\* the part that holds: on text without carriage returns, every offset that is
\* not the end of a text that is empty or ends with a line feed
C22_DecodeOffsetInsideLines ==
  phase = "done" /\ input.kind = "decode" /\ (\A i \in DOMAIN source : source[i] # "\r")
    /\ ~(input.offset = Len(source) /\ (source = <<>> \/ source[Len(source)] = "\n")) =>
    decoded = DocPosition(source, input.offset)

\* `a` and a line feed, offset 2 (where the end-of-file token is): not found
C22_EndOfFileAfterLineFeed ==
  /\ source = <<"a", "\n">>
  /\ input.offset = 2
  /\ phase = "done"
  /\ decoded = NoPosition

-----------------------------------------------------------------------------
(* The interpreter trusts the type checker *)

ValueType(value) ==
  CASE value.type = "IntV" -> "IntType"
    [] value.type = "StringV" -> "StringType"
    [] value.type = "BoolV" -> "BoolType"

\* evaluating the expression meets no name without a binding and no operator
\* whose operand values the type table does not allow; evaluation that stops
\* for another reason (overflow, division by zero, no value yet) stops there
RECURSIVE Trusted(_, _)
Trusted(vs, expression) ==
  CASE expression.kind = "Literal" -> TRUE
    [] expression.kind = "Variable" -> expression.name \in DOMAIN vs
    [] expression.kind = "BinaryOp" ->
         /\ Trusted(vs, expression.left)
         /\ evaluate_expression(vs, expression.left).ok =>
              /\ Trusted(vs, expression.right)
              /\ evaluate_expression(vs, expression.right).ok =>
                   binary_op_type(expression.op,
                                  ValueType(evaluate_expression(vs, expression.left).value),
                                  ValueType(evaluate_expression(vs, expression.right).value)) # ""
    [] expression.kind = "UnaryOp" ->
         /\ Trusted(vs, expression.inner)
         /\ evaluate_expression(vs, expression.inner).ok =>
              unary_op_type(expression.op,
                            ValueType(evaluate_expression(vs, expression.inner).value)) # ""

\* the expression is trusted and its value, when there is one, has this type
TrustedAs(vs, expression, type) ==
  /\ Trusted(vs, expression)
  /\ evaluate_expression(vs, expression).ok =>
       evaluate_expression(vs, expression).value.type = type

TrustedStatement(vs, st) ==
  CASE st.kind = "Declare" -> st.initial.kind = "None" \/ Trusted(vs, st.initial)
    [] st.kind = "Assign" -> Trusted(vs, st.value) /\ st.name \in DOMAIN vs
    [] st.kind = "Print" -> Trusted(vs, st.expr)
    [] st.kind = "Read" ->
         st.name \in DOMAIN vs /\ vs[st.name].type_of \in {"IntType", "StringType"}
    [] st.kind = "Assert" -> TrustedAs(vs, st.expr, "BoolV")
    [] st.kind = "For" -> TrustedAs(vs, st.from, "IntV") /\ TrustedAs(vs, st.to, "IntV")

\* C23: the execution of a program that type_check accepted never reaches a
\* type-mismatch arm and never looks up a name without a binding: operators
\* get operand values the type table allows, for bounds are ints, assert
\* arguments bools, and every variable read, assigned or read into is bound
C23_TypeCheckerTrusted ==
  Executing /\ xstack # <<>> =>
    /\ Top(xstack).pc <= Len(Top(xstack).block) => TrustedStatement(variables, Current(xstack))
    /\ AtLoopHead => Top(xstack).variable \in DOMAIN variables

\* in the second turn of the outer loop the inner body declares k as an int
\* again while the flat environment holds the string k of the first turn
C23_RedeclaredInSecondTurn ==
  /\ input = [kind |-> "flat", body |-> <<"inner_k_int", "k_string", "use_string">>]
  /\ Executing
  /\ Len(xstack) = 3
  /\ AtStatement(xstack, "Declare")
  /\ <<"k">> \in DOMAIN variables
  /\ variables[<<"k">>].type_of = "StringType"
  /\ Len(io.output) = 3

-----------------------------------------------------------------------------
(* The scope tree alone: add_new_scope, define_symbol (as the type checker  *)
(* calls it, with a mutable symbol), set_variable_mutability and get_symbol *)
(* in any order                                                             *)

ScopeNames == {<<"a">>}
ScopeTypes == {"IntType", "StringType"}

InitScopes ==
  /\ input = [kind |-> "scopes"]
  /\ source = <<>>
  /\ build = "debug"
  /\ io = [input |-> <<>>, output |-> <<>>]
  /\ phase = "scopes"
  /\ parsed = [ok |-> FALSE, val |-> <<>>, errs |-> <<>>]
  /\ program = <<>>
  /\ tree = ScopeTree_new
  /\ tstack = <<>>
  /\ tresult = NoResult
  /\ variables = EmptyMap
  /\ xstack = <<>>
  /\ lexer = NoLexer
  /\ returned = <<>>
  /\ decoded = NoPosition
  /\ outcome = NoOutcome

TreeOnly ==
  UNCHANGED <<lexer, returned, decoded, input, build, source, phase, parsed, program, tstack,
              tresult, variables, xstack, io, outcome>>

AddNewScope ==
  /\ phase = "scopes"
  /\ tree.next_scope_id < MaxScopes
  /\ \E parent \in DOMAIN tree.scopes : tree' = add_new_scope(tree, parent).tree
  /\ TreeOnly

DefineSymbol ==
  /\ phase = "scopes"
  /\ \E scope \in DOMAIN tree.scopes, name \in ScopeNames, type \in ScopeTypes :
       tree' = define_symbol(tree, scope, name, Symbol(type, TRUE))
  /\ TreeOnly

\* set_variable_mutability expects the symbol to be defined
SetVariableMutability ==
  /\ phase = "scopes"
  /\ \E scope \in DOMAIN tree.scopes, name \in ScopeNames, is_mutable \in BOOLEAN :
       /\ get_symbol_mut(tree, scope, name).some
       /\ tree' = set_variable_mutability(tree, scope, name, is_mutable)
  /\ TreeOnly

\* get_symbol, which fills the cache of the scope on a miss
GetSymbol ==
  /\ phase = "scopes"
  /\ \E scope \in DOMAIN tree.scopes, name \in ScopeNames :
       tree' = get_symbol(tree, scope, name).tree
  /\ TreeOnly

NextScopes == AddNewScope \/ DefineSymbol \/ SetVariableMutability \/ GetSymbol

SpecScopes == InitScopes /\ [][NextScopes]_vars

\* the direct walk: the scope's own table, then its parent's, up to the root
RECURSIVE Walk(_, _, _)
Walk(t, scope, name) ==
  IF name \in DOMAIN t.scopes[scope].symbols
    THEN [some |-> TRUE, symbol |-> t.scopes[scope].symbols[name]]
  ELSE IF t.scopes[scope].parent # scope THEN Walk(t, t.scopes[scope].parent, name)
  ELSE [some |-> FALSE, symbol |-> Symbol("", FALSE)]

Looked(found) == [some |-> found.some, symbol |-> found.symbol]

\* C24: after any sequence of add_new_scope, define_symbol and
\* set_variable_mutability, get_symbol(scope, name) returns what a direct walk
\* up the parent chain returns (presence, type and is_mutable): the cache is
\* never stale
C24_CacheNeverStale ==
  phase = "scopes" =>
    \A scope \in DOMAIN tree.scopes, name \in ScopeNames :
      Looked(get_symbol(tree, scope, name)) = Walk(tree, scope, name)

\* the part that holds: presence and type are those of the direct walk
C24_PresenceAndTypeFresh ==
  phase = "scopes" =>
    \A scope \in DOMAIN tree.scopes, name \in ScopeNames :
      /\ get_symbol(tree, scope, name).some = Walk(tree, scope, name).some
      /\ get_symbol(tree, scope, name).symbol.type_of = Walk(tree, scope, name).symbol.type_of

\* a is immutable in the global scope's own table and mutable in its cache
C24_StaleMutability ==
  /\ phase = "scopes"
  /\ <<"a">> \in DOMAIN tree.scopes[0].symbols
  /\ ~tree.scopes[0].symbols[<<"a">>].is_mutable
  /\ 0 \in DOMAIN tree.scope_symbols_cache
  /\ get_symbol(tree, 0, <<"a">>).some
  /\ get_symbol(tree, 0, <<"a">>).symbol.is_mutable

-----------------------------------------------------------------------------
(* The scope tree around a for statement (checked under Spec) *)

\* the loop variables of the for statements whose bodies are being checked
OpenLoopVariables == { tstack[k].variable : k \in 2..Len(tstack) }

\* the names that the Declare statements block[1..upto] declare
DeclaredIn(block, upto) ==
  { block[k].statement.name :
      k \in { j \in 1..upto : block[j].statement.kind = "Declare" } }

\* every scope's own table holds what the statements checked in it so far
\* have declared, and nothing else
TablesFramed ==
  \A k \in 1..Len(tstack) :
    DOMAIN tree.scopes[tstack[k].scope].symbols
      = DeclaredIn(tstack[k].block, tstack[k].pc - 1)

\* a symbol's flag is false exactly while a for over it is open
FlagsFollowLoops ==
  \A scope \in DOMAIN tree.scopes :
    \A name \in DOMAIN tree.scopes[scope].symbols :
      tree.scopes[scope].symbols[name].is_mutable = (name \notin OpenLoopVariables)

\* C25: while the body of a for is being checked the loop variable's flag is
\* false; once the for has been checked the flag is true again, the scope
\* that holds the for has exactly the symbols its own declarations gave it, so
\* no symbol of the body is visible outside, and an assignment to the loop
\* variable after `end for` is accepted.
C25_ForRestoresScopes ==
  /\ Checking => (TablesFramed /\ FlagsFollowLoops)
  /\ tresult.state = "ok" =>
       /\ DOMAIN tree.scopes[0].symbols = DeclaredIn(program, Len(program))
       /\ \A name \in DOMAIN tree.scopes[0].symbols :
            /\ tree.scopes[0].symbols[name].is_mutable
            /\ get_symbol(tree, 0, name).symbol.is_mutable
            /\ assert_mutable(tree, 0, name).ok
  /\ (/\ input.kind = "script"
      /\ input.body = <<"for", "assign">>
      /\ tresult.state # "none") => tresult.state = "ok"
  /\ (/\ input.kind = "flat"
      /\ input.body \in {<<"inner_k_int", "k_int">>, <<"inner_k_int", "k_string">>}
      /\ tresult.state # "none") => tresult.state = "ok"

\* `var x : int := 1; for x in 0..1 do print x; end for; x := x + 1;` has
\* passed the type checker, with x mutable again and the for's scope left
\* behind
C25_AssignedAfterEndFor ==
  /\ input.kind = "script"
  /\ input.body = <<"for", "assign">>
  /\ tresult.state = "ok"
  /\ tree.next_scope_id = 2
  /\ tree.scopes[0].symbols[<<"x">>].is_mutable

-----------------------------------------------------------------------------
(* The loop variable during the loop (checked under Spec) *)

\* where the outermost for statement of a generated loop program starts
FirstIndex == IF input.kind = "loop" THEN input.a ELSE 0

\* the outermost loop is at the start of an iteration, or at the end of one
AtIterationBoundary ==
  /\ input.kind \in {"loop", "mut"}
  /\ phase = "execute"
  /\ Len(xstack) = 2
  /\ xstack[2].loop
  /\ xstack[2].next > FirstIndex
  /\ xstack[2].pc = 1 \/ xstack[2].pc > Len(xstack[2].block)

\* C26: a for body that reads into the loop's own variable is rejected by the
\* type checker, like one that assigns to it, so no accepted program changes
\* the loop variable inside the body: at the start and at the end of every
\* iteration the loop variable is the current index.
C26_LoopVariableUnchanged ==
  /\ (input.kind = "loop" /\ input.body = "read" /\ tresult.state # "none")
       => tresult.state = "err"
  /\ AtIterationBoundary =>
       variables[xstack[2].variable].value = IntV(xstack[2].next - 1)

\* `for v in 0..1 do read v; end for;` has passed the type checker and its
\* first iteration, index 0, ends with the 7 that was read in v
C26_ReadIntoLoopVariable ==
  /\ input.kind = "loop" /\ input.body = "read"
  /\ input.a = 0 /\ input.b = 1
  /\ tresult.state = "ok"
  /\ AtIterationBoundary
  /\ xstack[2].pc > Len(xstack[2].block)
  /\ xstack[2].next = 1
  /\ variables[<<"v">>].value = IntV(7)

-----------------------------------------------------------------------------
(* Loops whose bodies write the variables of their bounds:                  *)
(*   var m : int := M; var n : int := N; var i : int;                       *)
(*   for i in m..n do print i; BODY end for;                                *)
(* BODY is one or two of these statements.                                  *)

BoundStatements == {"grow_to", "zero_to", "move_from", "read_to", "assert"}

BoundWords(tag) ==
  CASE tag = "grow_to" -> <<"n", ":=", "n", "+", "1", ";">>
    [] tag = "zero_to" -> <<"n", ":=", "0", ";">>
    [] tag = "move_from" -> <<"m", ":=", "m", "+", "5", ";">>
    [] tag = "read_to" -> <<"read", "n", ";">>
    [] tag = "assert" -> <<"assert", "(", "i", "=", "i", ")", ";">>

RECURSIVE BoundText(_)
BoundText(tags) ==
  IF tags = <<>> THEN <<>> ELSE BoundWords(Head(tags)) \o BoundText(Tail(tags))

BoundSource(c) ==
  Concat(<< WithNumber(<<"var", "m", ":", "int", ":=">>, c.m),
            WithNumber(<<";", "var", "n", ":", "int", ":=">>, c.n),
            Text(<<";", "var", "i", ":", "int", ";", "for", "i", "in", "m", "..", "n", "do",
                   "print", "i", ";">>),
            Text(BoundText(c.body)),
            Text(<<"end", "for", ";">>) >>)

BoundCases ==
  { [kind |-> "bounds", m |-> m, n |-> n, body |-> <<t>>] :
      m \in 0..MaxBound, n \in 0..MaxBound, t \in BoundStatements }
    \cup { [kind |-> "bounds", m |-> m, n |-> n, body |-> <<t, u>>] :
             m \in 0..MaxBound, n \in 0..MaxBound,
             t \in BoundStatements, u \in BoundStatements }

InitFor ==
  /\ input \in BoundCases
  /\ source = BoundSource(input)
  /\ build \in {"debug", "release"}
  /\ io = InitialIo
  /\ Fresh("parse")

SpecFor == InitFor /\ [][Next]_vars

\* one line for each index from the m to the n the loop started with
BoundOutput == [k \in 1..Len(Ascending(input.m, input.n)) |-> Printed(Ascending(input.m, input.n)[k])]

\* how far run_script has come: the stage, then for each open statement list,
\* outermost first, the index the loop has reached and the statement it is at
Stage ==
  CASE phase = "parse" -> 0 [] phase = "typecheck" -> 1 [] phase = "execute" -> 2
    [] OTHER -> 3

RECURSIVE CheckPosition(_)
CheckPosition(stack) ==
  IF stack = <<>> THEN <<>> ELSE <<Head(stack).pc>> \o CheckPosition(Tail(stack))

RECURSIVE RunPosition(_)
RunPosition(stack) ==
  IF stack = <<>> THEN <<>>
  ELSE (IF Head(stack).loop THEN <<Head(stack).next>> ELSE <<>>)
         \o <<Head(stack).pc>> \o RunPosition(Tail(stack))

Progress ==
  <<Stage>> \o (CASE phase = "typecheck" -> CheckPosition(tstack)
                  [] phase = "execute" -> RunPosition(xstack)
                  [] OTHER -> <<>>)

\* s comes before t in the lexicographic order
RECURSIVE LexLess(_, _)
LexLess(s, t) ==
  IF t = <<>> THEN FALSE
  ELSE IF s = <<>> THEN TRUE
  ELSE \/ Head(s) < Head(t)
       \/ Head(s) = Head(t) /\ LexLess(Tail(s), Tail(t))

Largest(a, b) == IF a > b THEN a ELSE b

\* the range of the loop is the one built from the first m and n, and the
\* positions are bounded
RangeFixed ==
  /\ Len(xstack) <= 2
  /\ \A k \in 1..Len(xstack) : xstack[k].pc <= Len(xstack[k].block) + 1
  /\ Len(xstack) = 2 =>
       /\ xstack[2].loop
       /\ xstack[2].end = input.n + 1
       /\ xstack[2].next >= input.m
       /\ xstack[2].next <= Largest(input.m, input.n + 1)

\* C27: from and to are evaluated once, before the first iteration: a body
\* that assigns to or reads into the variables of the bounds runs once for
\* each index from the first value of m to the first value of n; and every
\* step of run_script moves on in a bounded order, so the interpreter executes
\* finitely many statements (it panics only when a read finds no line).
C27_BoundsEvaluatedOnce ==
  /\ [](/\ IsPrefix(io.output, BoundOutput)
        /\ (phase = "done" /\ outcome.state = "ok") => io.output = BoundOutput
        /\ outcome.state = "panic" => io.input = <<>>
        /\ phase # "parse" => (parsed.ok /\ tresult.state # "err")
        /\ RangeFixed)
  /\ [][LexLess(Progress, Progress')]_vars

\* for i in m..n with m = 0, n = 1 and the body `print i; n := n + 1;` has run
\* twice: n is 3
C27_BoundGrownInBody ==
  /\ input.kind = "bounds"
  /\ input.m = 0 /\ input.n = 1
  /\ input.body = <<"grow_to">>
  /\ phase = "done" /\ outcome.state = "ok"
  /\ variables[<<"n">>].value = IntV(3)
  /\ io.output = <<Printed(0), Printed(1)>>

-----------------------------------------------------------------------------
(* The largest upper bound (checked under Spec) *)

\* C28: for v in a..2147483647 with a <= 2147483647 builds its range without
\* an overflow: nothing panics, and the loop finishes with 2147483647 in v
\* after writing 2147483647 - a + 1 lines.
C28_LargestUpperBound ==
  (input.kind = "loop" /\ input.body = "print" /\ input.b = MaxI32) =>
    /\ outcome.state # "panic"
    /\ phase = "done" =>
         /\ variables[<<"v">>].value = IntV(MaxI32)
         /\ Len(io.output) = MaxI32 - input.a + 1

\* in a build without overflow checks `for v in 0..2147483647 do print v;
\* end for;` has returned without an iteration: v is still 9
C28_WrappedToEmptyRange ==
  /\ input.kind = "loop" /\ input.body = "print"
  /\ input.a = 0 /\ input.b = MaxI32
  /\ build = "release"
  /\ phase = "done" /\ outcome.state = "ok"
  /\ io.output = <<>>
  /\ variables[<<"v">>].value = IntV(9)

-----------------------------------------------------------------------------
(* Infix expressions (checked under SpecParse) *)

\* the words are an infix expression: operands and parenthesised expressions
\* with one binary operator between each two
RECURSIVE Infix(_, _, _)
Infix(words, operand_next, depth) ==
  IF words = <<>> THEN ~operand_next /\ depth = 0
  ELSE CASE Head(words) = "+" -> ~operand_next /\ Infix(Tail(words), TRUE, depth)
         [] Head(words) = "(" -> operand_next /\ Infix(Tail(words), TRUE, depth + 1)
         [] Head(words) = ")" ->
              ~operand_next /\ depth > 0 /\ Infix(Tail(words), FALSE, depth - 1)
         [] OTHER -> operand_next /\ Infix(Tail(words), FALSE, depth)

NoParens(words) == \A k \in 1..Len(words) : words[k] \notin {"(", ")"}

\* C29: a statement whose expression has no parentheses is parsed only when
\* the expression is an infix expression; operands without an operator between them and operators before
\* or after their operands (`1 1 +`, `+ 1 1`) are rejected with
\* IncompleteExpression or InvalidBinaryExpression.
C29_OnlyInfixParsed ==
  (input.kind = "paren" /\ NoParens(input.words) /\ phase # "parse") =>
    /\ parsed.ok => Infix(input.words, TRUE, 0)
    /\ ~Infix(input.words, TRUE, 0) =>
         /\ ~parsed.ok
         /\ parsed.errs[1].kind \in {"IncompleteExpression", "InvalidBinaryExpression"}

\* `print 1 1 + ;` has been parsed to the program print 1 + 1
C29_PostfixParsed ==
  /\ input = [kind |-> "paren", statement |-> "print", words |-> <<"1", "1", "+">>]
  /\ phase # "parse"
  /\ parsed.ok
  /\ Len(program) = 1
  /\ program[1].statement =
       PrintStmt(BinaryOp("Add", Literal(IntLiteral(1)), Literal(IntLiteral(1))))

-----------------------------------------------------------------------------
(* The rounds of parse_program (checked under SpecParse) *)

\* one entry for each call of parse_program whose statement list failed: where
\* the lexer stood when the call began, the errors of the list, whether
\* try_recover succeeded and the lexer it left
RECURSIVE Rounds(_)
Rounds(lx) ==
  LET round(list, recovery) ==
        << [start |-> lexer_offset(lx), errs |-> list.errs,
            recovered |-> recovery.recovered, lx |-> recovery.lx] >>
          \o (IF recovery.recovered THEN Rounds(recovery.lx) ELSE <<>>)
      listed(list) == IF list.ok THEN <<>> ELSE round(list, try_recover(list.lx))
  IN listed(parse_statement_list(lx))

RECURSIVE RoundErrors(_)
RoundErrors(rounds) ==
  IF rounds = <<>> THEN <<>> ELSE Head(rounds).errs \o RoundErrors(Tail(rounds))

Semicolons(chars) == Cardinality({k \in 1..Len(chars) : chars[k] = ";"})

\* a successful recovery has consumed characters up to and including a
\* semicolon and left nothing buffered; a failed one has stopped with the
\* EndOfFile token buffered, or with nothing buffered after a lexer error
RoundsAdvance(rounds) ==
  \A k \in 1..Len(rounds) :
    /\ rounds[k].errs # <<>>
    /\ rounds[k].recovered =>
         /\ ~rounds[k].lx.token.some
         /\ rounds[k].lx.offset > rounds[k].start
         /\ source[rounds[k].lx.offset] = ";"
         /\ k < Len(rounds) => rounds[k + 1].start = rounds[k].lx.offset
    /\ ~rounds[k].recovered =>
         /\ k = Len(rounds)
         /\ rounds[k].lx.token.some => rounds[k].lx.token.token.kind = "EndOfFile"

\* C30: parse_program comes to an end on every input: each round that
\* recovers has consumed at least the semicolon, so there are no more rounds
\* than semicolons and one; try_recover stops at EndOfFile or at a lexer
\* error, and no round follows a failed recovery.
C30_RecoveryAdvances ==
  (input.kind = "parse" /\ phase # "parse") =>
    /\ RoundsAdvance(Rounds(BufferedLexer_new(source)))
    /\ Len(Rounds(BufferedLexer_new(source))) <= Semicolons(source) + 1
    /\ IsPrefix(RoundErrors(Rounds(BufferedLexer_new(source))), parsed.errs)
    /\ parsed.ok <=> Rounds(BufferedLexer_new(source)) = <<>> /\ parsed.errs = <<>>

\* `do ; read 1 ; /*` has been parsed in three rounds: two recoveries, and a
\* third whose statement list fails at the comment and whose recovery stops
\* at EndOfFile
C30_ThreeRounds ==
  /\ input = [kind |-> "parse", body |-> <<"unknown", "no_identifier", "bare_comment">>]
  /\ phase # "parse"
  /\ Len(Rounds(BufferedLexer_new(source))) = 3
  /\ Rounds(BufferedLexer_new(source))[2].recovered
  /\ ~Rounds(BufferedLexer_new(source))[3].recovered
  /\ Rounds(BufferedLexer_new(source))[3].lx.token.token.kind = "EndOfFile"
  /\ Len(parsed.errs) = 3
=============================================================================
